---------------------------- MODULE Spec2Model ----------------------------
(***************************************************************************)
(* A model of serope/laroussefr: the extraction of typed records from the  *)
(* parse tree of one Larousse dictionary page (packages laroussefr,        *)
(* traduction, definition and their parse/match helpers).                  *)
(*                                                                         *)
(* Strings are sequences of atoms.  An atom is one character ("/", "1",    *)
(* " ", ...) or one whole word, which the code never looks inside.  The    *)
(* empty string is << >>.  A class attribute holds one class name and is   *)
(* kept as a TLA+ string, since the code only compares it with literals.   *)
(*                                                                         *)
(* An html.Node pointer is the path of the node from the root of the page  *)
(* (the sequence of child positions); the nil pointer is Nil.              *)
(***************************************************************************)
EXTENDS Integers, Sequences, FiniteSets, TLC

VARIABLES
    pkg,              \* package whose NewFromFileOrURL runs: "traduction" | "definition"
    in,               \* the argument of NewFromFileOrURL
    pc,               \* position inside NewFromFileOrURL
    doc,              \* the root returned by scrapeutil.HTMLRoot
    ErrWordNotFound,  \* the variable ErrWordNotFound of each package (nil at start)
    result,           \* the Result returned
    err,              \* the error returned
    ran,              \* which locators/extractors have run during the call
    pageID,           \* newResultFromRoot: the page ID
    phase,            \* scrapeWords: "big" or "small", the list being scraped
    bigWords,         \* scrapeBigWords: out
    smallWords,       \* scrapeSmallWords: out
    wi,               \* index i of the ZoneEntree node being scraped
    ri,               \* getWordCode: index i of the innermost activation
    calls,            \* getWordCode: activations on the stack
    code,             \* the code getWordCode returned for entry wi
    peer              \* the locals of a second invocation, while it is not running

-----------------------------------------------------------------------------
(* Strings *)

RECURSIVE TrimLeft(_), TrimRight(_), Join(_, _)

TrimLeft(s) ==
    IF s # << >> /\ Head(s) = " " THEN TrimLeft(Tail(s)) ELSE s

TrimRight(s) ==
    IF s # << >> /\ s[Len(s)] = " " THEN TrimRight(SubSeq(s, 1, Len(s) - 1)) ELSE s

TrimSpace(s) == TrimRight(TrimLeft(s))

Join(pieces, sep) ==
    IF pieces = << >> THEN << >>
    ELSE IF Len(pieces) = 1 THEN pieces[1]
    ELSE pieces[1] \o sep \o Join(Tail(pieces), sep)

isWhitespace(str) == \A i \in 1..Len(str) : str[i] = " "

Digits == {"0", "1", "2", "3", "4", "5", "6", "7", "8", "9"}

DigitVal(c) ==
    CASE c = "0" -> 0 [] c = "1" -> 1 [] c = "2" -> 2 [] c = "3" -> 3
      [] c = "4" -> 4 [] c = "5" -> 5 [] c = "6" -> 6 [] c = "7" -> 7
      [] c = "8" -> 8 [] c = "9" -> 9

RECURSIVE DecVal(_)
DecVal(s) == IF s = << >> THEN 0 ELSE 10 * DecVal(SubSeq(s, 1, Len(s) - 1)) + DigitVal(s[Len(s)])

\* strconv.Atoi: an optional sign, then one or more decimal digits.
Atoi(s) ==
    LET body == IF s # << >> /\ Head(s) \in {"+", "-"} THEN Tail(s) ELSE s IN
    IF body = << >> \/ \E i \in 1..Len(body) : body[i] \notin Digits
    THEN [ok |-> FALSE, v |-> 0]
    ELSE [ok |-> TRUE,
          v  |-> IF Head(s) = "-" THEN 0 - DecVal(body) ELSE DecVal(body)]

\* strings.LastIndexByte(s, '/') as a 1-based position, 0 when there is none.
LastSlash(s) ==
    IF \E i \in 1..Len(s) : s[i] = "/"
    THEN CHOOSE i \in 1..Len(s) : s[i] = "/" /\ \A j \in (i + 1)..Len(s) : s[j] # "/"
    ELSE 0

-----------------------------------------------------------------------------
(* The parse tree *)

Nil == <<0>>

Elem(tag, class, kids) ==
    [tag |-> tag, class |-> class, rel |-> "", id |-> << >>, link |-> << >>,
     href |-> << >>, src |-> << >>, data |-> <<tag>>, kids |-> kids]

TextNode(data) ==
    [tag |-> "#text", class |-> "", rel |-> "", id |-> << >>, link |-> << >>,
     href |-> << >>, src |-> << >>, data |-> data, kids |-> << >>]

RECURSIVE NodeAt(_, _)
NodeAt(d, p) == IF p = << >> THEN d ELSE NodeAt(d.kids[Head(p)], Tail(p))

Parent(p) == IF p = << >> THEN Nil ELSE SubSeq(p, 1, Len(p) - 1)

FirstChild(d, p) == IF NodeAt(d, p).kids = << >> THEN Nil ELSE Append(p, 1)

NextSibling(d, p) ==
    IF p = << >> THEN Nil
    ELSE IF p[Len(p)] < Len(NodeAt(d, Parent(p)).kids)
         THEN Append(Parent(p), p[Len(p)] + 1)
         ELSE Nil

PrevSibling(d, p) ==
    IF p = << >> THEN Nil
    ELSE IF p[Len(p)] > 1 THEN Append(Parent(p), p[Len(p)] - 1) ELSE Nil

isTextNode(d, p) == NodeAt(d, p).tag = "#text"

\* The subtree of p in document (pre-order) order, p first.
RECURSIVE Preorder(_, _), PreorderKids(_, _, _)
Preorder(d, p) == <<p>> \o PreorderKids(d, p, 1)

PreorderKids(d, p, i) ==
    IF i > Len(NodeAt(d, p).kids) THEN << >>
    ELSE Preorder(d, Append(p, i)) \o PreorderKids(d, p, i + 1)

IsPrefix(a, b) == Len(a) <= Len(b) /\ SubSeq(b, 1, Len(a)) = a

-----------------------------------------------------------------------------
(* github.com/yhat/scrape, as the repository calls it *)

Range(s) == {s[i] : i \in 1..Len(s)}

\* scrape.Attr(n, key): the attribute's value, "" when the node has none.
AttrId(d, p)   == NodeAt(d, p).id
AttrLink(d, p) == NodeAt(d, p).link
AttrHref(d, p) == NodeAt(d, p).href
AttrSrc(d, p)  == NodeAt(d, p).src
AttrRel(d, p)  == NodeAt(d, p).rel
class(d, p)    == NodeAt(d, p).class

\* scrape.ByClass(c) and scrape.ByTag(a) as matchers on (tree, node).
ByClass(c, d, p) == NodeAt(d, p).class = c
ByTag(a, d, p)   == NodeAt(d, p).tag = a

\* scrape.Find: the first match in pre-order, the start node included.
Find(d, p, M(_, _)) ==
    LET hits == SelectSeq(Preorder(d, p), LAMBDA q : M(d, q)) IN
    IF hits = << >> THEN Nil ELSE hits[1]

\* scrape.FindAll: every match in pre-order, not searching below a match.
FindAll(d, p, M(_, _)) ==
    LET hits == SelectSeq(Preorder(d, p), LAMBDA q : M(d, q)) IN
    SelectSeq(hits, LAMBDA q : ~ \E r \in Range(hits) : r # q /\ IsPrefix(r, q))

FindByClass(d, p, c)    == Find(d, p, LAMBDA dd, q : ByClass(c, dd, q))
FindAllByClass(d, p, c) == FindAll(d, p, LAMBDA dd, q : ByClass(c, dd, q))
FindByTag(d, p, a)      == Find(d, p, LAMBDA dd, q : ByTag(a, dd, q))
FindAllByTag(d, p, a)   == FindAll(d, p, LAMBDA dd, q : ByTag(a, dd, q))

\* scrape.Text: the trimmed, non-empty text pieces of the subtree joined by " ".
RECURSIVE TextPieces(_, _)
TextPieces(d, ps) ==
    IF ps = << >> THEN << >>
    ELSE LET n == NodeAt(d, Head(ps))
             t == TrimSpace(n.data) IN
         (IF n.tag = "#text" /\ t # << >> THEN <<t>> ELSE << >>)
             \o TextPieces(d, Tail(ps))

Text(d, p) == Join(TextPieces(d, Preorder(d, p)), <<" ">>)

-----------------------------------------------------------------------------
(* Package laroussefr: audio URLs *)

\* len("/dictionnaires-prononciation/"), the offset GetAudioURL slices at.
AudioPrefixLen == 29

HasSlash(s) == \E i \in 1..Len(s) : s[i] = "/"

FirstSlash(s) == CHOOSE i \in 1..Len(s) : s[i] = "/" /\ \A j \in 1..(i - 1) : s[j] # "/"

\* GetAudioURL dereferences n, slices src[29:] and then str[:i] with i the
\* index of the first '/': each of these can fail at run time.
GetAudioURLPanics(d, n) ==
    \/ n = Nil
    \/ /\ AttrSrc(d, n) # << >>
       /\ \/ Len(AttrSrc(d, n)) < AudioPrefixLen
          \/ ~ HasSlash(SubSeq(AttrSrc(d, n), AudioPrefixLen + 1, Len(AttrSrc(d, n))))

GetAudioURL(d, n) ==
    LET src == AttrSrc(d, n) IN
    IF src = << >> THEN << >>
    ELSE LET str      == SubSeq(src, AudioPrefixLen + 1, Len(src))
             lang     == SubSeq(str, 1, FirstSlash(str) - 1)
             filename == SubSeq(str, LastSlash(str) + 1, Len(str)) IN
         <<"https://voix.larousse.fr/">> \o lang \o <<"/">> \o filename \o <<".mp3">>

-----------------------------------------------------------------------------
(* Package traduction/parse *)

NoTarget == <<0, 0>>

\* The node Lienson hands to GetAudioURL; NoTarget when it returns "" first.
LiensonTarget(d, n) ==
    LET m == NextSibling(d, n) IN
    IF m = Nil THEN NoTarget
    ELSE IF isTextNode(d, m) THEN NextSibling(d, m)
    ELSE IF NodeAt(d, m).tag # "audio" THEN NoTarget
    ELSE m

LiensonPanics(d, n) ==
    LiensonTarget(d, n) # NoTarget /\ GetAudioURLPanics(d, LiensonTarget(d, n))

Lienson(d, n) ==
    IF LiensonTarget(d, n) = NoTarget THEN << >> ELSE GetAudioURL(d, LiensonTarget(d, n))

HasSuffixAtom(s, a) == s # << >> /\ s[Len(s)] = a
HasPrefixAtom(s, a) == s # << >> /\ s[1] = a

isOuBienNode(d, m) == NodeAt(d, m).tag = "span" /\ class(d, m) = "oubien"

RECURSIVE TraductionFrom(_, _, _)
TraductionFrom(d, m, out) ==
    IF m = Nil THEN out
    ELSE LET text == Text(d, m)
             cl   == class(d, m)
             o1   == IF cl = "Genre" \/ HasSuffixAtom(out, ",") THEN out \o <<" ">> ELSE out
             o2   == IF isOuBienNode(d, m) THEN o1 \o <<" ", "ou", " ">>
                     ELSE IF cl # "lienconj2" /\ cl # "Metalangue2"
                          THEN (IF HasPrefixAtom(text, "(") THEN o1 \o <<" ">> ELSE o1) \o text
                          ELSE o1 IN
         TraductionFrom(d, NextSibling(d, m), o2)

Traduction(d, n) == TraductionFrom(d, FirstChild(d, n), << >>)

parseEntreeTexteFails(d, n) == FindByClass(d, n, "Adresse") = Nil

parseEntreeTexte(d, n) == Text(d, FindByClass(d, n, "Adresse"))

parseEntreTexteAlt(d, n) ==
    LET f == FindByClass(d, n, "FormeFlechieAdresse") IN
    IF f = Nil THEN << >>
    ELSE LET str == Text(d, f) IN
         IF Len(str) >= 2 /\ str[1] = "(" /\ str[2] = " "
         THEN <<"(">> \o SubSeq(str, 3, Len(str))
         ELSE str

RECURSIVE ConcatTexts(_, _)
ConcatTexts(d, ps) ==
    IF ps = << >> THEN << >> ELSE Text(d, Head(ps)) \o ConcatTexts(d, Tail(ps))

parseEntreePhonetique(d, n) == ConcatTexts(d, FindAllByClass(d, n, "Phonetique"))

parseEntreeAudioPanics(d, n) ==
    FindByClass(d, n, "lienson") # Nil /\ LiensonPanics(d, FindByClass(d, n, "lienson"))

parseEntreeAudio(d, n) ==
    IF FindByClass(d, n, "lienson") = Nil THEN << >>
    ELSE Lienson(d, FindByClass(d, n, "lienson"))

\* strings.ReplaceAll(s, "Conjugaison", ""), the word being one atom.
DropConjugaison(s) == SelectSeq(s, LAMBDA a : a # "Conjugaison")

\* strings.ReplaceAll(s, "  ", " "): non-overlapping, left to right.
RECURSIVE SqueezeSpaces(_)
SqueezeSpaces(s) ==
    IF Len(s) < 2 THEN s
    ELSE IF s[1] = " " /\ s[2] = " " THEN <<" ">> \o SqueezeSpaces(SubSeq(s, 3, Len(s)))
    ELSE <<s[1]>> \o SqueezeSpaces(Tail(s))

parseEntreeType(d, n) ==
    LET m == IF FindByClass(d, n, "ZoneGram") # Nil
             THEN FindByClass(d, n, "ZoneGram")
             ELSE FindByClass(d, n, "CategorieGrammaticale") IN
    IF m = Nil THEN << >>
    ELSE TrimSpace(SqueezeSpaces(DropConjugaison(Text(d, m))))

ZoneEntreeFails(d, n) == parseEntreeTexteFails(d, n)

ZoneEntreePanics(d, n) == ~ parseEntreeTexteFails(d, n) /\ parseEntreeAudioPanics(d, n)

\* The Header built from ZoneEntree's five strings.
ZoneEntree(d, n) ==
    [Text     |-> parseEntreeTexte(d, n),
     TextAlt  |-> parseEntreTexteAlt(d, n),
     Phonetic |-> parseEntreePhonetique(d, n),
     Audio    |-> parseEntreeAudio(d, n),
     Type     |-> parseEntreeType(d, n)]

-----------------------------------------------------------------------------
(* Package traduction: Meaning and Phrase *)

Upper(a) ==
    CASE a = "sport" -> "SPORT" [] a = "droit" -> "DROIT" [] OTHER -> a

ToUpper(s) == [i \in 1..Len(s) |-> Upper(s[i])]

ZeroMeaning == [Text |-> << >>, RedBrac |-> << >>, RedCaps |-> << >>, RedMeta |-> << >>]

MeaningIsEmpty(m) ==
    m.Text = << >> /\ m.RedBrac = << >> /\ m.RedCaps = << >> /\ m.RedMeta = << >>

updateFromTraductionNode(d, m, n) ==
    [m EXCEPT !.Text = (IF m.Text # << >> THEN m.Text \o <<" ">> ELSE m.Text)
                           \o Traduction(d, n)]

MeaningUpdate(d, m, n) ==
    CASE class(d, n) = "Renvois"           -> [m EXCEPT !.Text = Text(d, n)]
      [] class(d, n) = "Glose2"            -> [m EXCEPT !.Text = Text(d, n)]
      [] class(d, n) = "Traduction"        -> updateFromTraductionNode(d, m, n)
      [] class(d, n) = "Indicateur"        -> [m EXCEPT !.RedBrac = Text(d, n)]
      [] class(d, n) = "IndicateurDomaine" -> [m EXCEPT !.RedCaps = ToUpper(Text(d, n))]
      [] class(d, n) = "Metalangue"        -> [m EXCEPT !.RedMeta = Text(d, n)]
      [] OTHER                             -> m

FirstMeaningClasses ==
    {"Indicateur", "lienson2", "Traduction", "IndicateurDomaine", "Metalangue",
     "Indicateur2", "Renvois", "Glose2"}

stillOnFirstMeaningStrings(d, n) ==
    IF n = Nil THEN FALSE
    ELSE \/ NodeAt(d, n).tag = "audio"
         \/ isWhitespace(NodeAt(d, n).data)
         \/ isTextNode(d, n) /\ "→" \in Range(NodeAt(d, n).data)
         \/ class(d, n) \in FirstMeaningClasses

RECURSIVE FirstMeaningFrom(_, _, _)
FirstMeaningFrom(d, n, m) ==
    IF stillOnFirstMeaningStrings(d, n)
    THEN FirstMeaningFrom(d, NextSibling(d, n), MeaningUpdate(d, m, n))
    ELSE m

\* scrapeMeanings reads itemNode.FirstChild.Type without a nil check.
RECURSIVE scrapeMeaningsPanics(_, _)
scrapeMeaningsPanics(d, itemNode) ==
    \/ FirstChild(d, itemNode) = Nil
    \/ \E s \in Range(FindAllByClass(d, itemNode, "division-semantique")) :
           s # itemNode /\ scrapeMeaningsPanics(d, s)

RECURSIVE scrapeMeanings(_, _), OtherMeanings(_, _, _), MeaningPerNode(_, _)
scrapeMeaningsPerNode(d, itemNode) ==
    LET n0  == FirstChild(d, itemNode)
        n   == IF isTextNode(d, n0) /\ isWhitespace(NodeAt(d, n0).data)
               THEN NextSibling(d, n0) ELSE n0
        out == MeaningPerNode(d, n) \o OtherMeanings(d, itemNode,
                                      FindAllByClass(d, itemNode, "division-semantique")) IN
    IF Len(out) = 1 /\ MeaningIsEmpty(out[1]) THEN << >> ELSE out

scrapeMeanings(d, itemNode) ==
    LET n0  == FirstChild(d, itemNode)
        n   == IF isTextNode(d, n0) /\ isWhitespace(NodeAt(d, n0).data)
               THEN NextSibling(d, n0) ELSE n0
        m   == FirstMeaningFrom(d, n, ZeroMeaning)
        out == <<m>> \o OtherMeanings(d, itemNode,
                                      FindAllByClass(d, itemNode, "division-semantique")) IN
    IF Len(out) = 1 /\ MeaningIsEmpty(out[1]) THEN << >> ELSE out

MeaningPerNode(d, n) ==
    IF stillOnFirstMeaningStrings(d, n)
    THEN <<MeaningUpdate(d, ZeroMeaning, n)>> \o MeaningPerNode(d, NextSibling(d, n))
    ELSE << >>

OtherMeanings(d, itemNode, ss) ==
    IF ss = << >> THEN << >>
    ELSE LET meanings == IF Head(ss) = itemNode THEN << >> ELSE scrapeMeanings(d, Head(ss)) IN
         (IF Len(meanings) > 0 THEN <<meanings[1]>> ELSE << >>)
             \o OtherMeanings(d, itemNode, Tail(ss))

ZeroPhrase ==
    [Text1 |-> << >>, Text2 |-> << >>, Audio1 |-> << >>, Audio2 |-> << >>,
     RedBrac |-> << >>, RedCaps |-> << >>, RedMeta |-> << >>,
     IsBlue |-> FALSE, Subphrases |-> << >>]

handleLocution2InnerLienson3Panics(d, n) ==
    FindByClass(d, n, "lienson3") # Nil /\ LiensonPanics(d, FindByClass(d, n, "lienson3"))

PhraseUpdatePanics(d, n) ==
    CASE class(d, n) = "Locution2" -> handleLocution2InnerLienson3Panics(d, n)
      [] class(d, n) = "lienson3"  -> LiensonPanics(d, n)
      [] class(d, n) = "lienson2"  -> LiensonPanics(d, n)
      [] OTHER                     -> FALSE

PhraseUpdate(d, p, n) ==
    CASE class(d, n) = "Locution2" ->
             LET lienson3 == FindByClass(d, n, "lienson3") IN
             [p EXCEPT !.Text1  = Text(d, n),
                       !.Audio1 = IF lienson3 # Nil THEN Lienson(d, lienson3) ELSE @]
      [] class(d, n) \in {"Glose2", "Traduction2", "Renvois", "Metalangue2"} ->
             [p EXCEPT !.Text2 = (IF @ # << >> THEN @ \o <<" ">> ELSE @) \o Traduction(d, n)]
      [] class(d, n) = "lienson3"          -> [p EXCEPT !.Audio1  = Lienson(d, n)]
      [] class(d, n) = "lienson2"          -> [p EXCEPT !.Audio2  = Lienson(d, n)]
      [] class(d, n) = "Indicateur"        -> [p EXCEPT !.RedBrac = Text(d, n)]
      [] class(d, n) = "IndicateurDomaine" -> [p EXCEPT !.RedCaps = ToUpper(Text(d, n))]
      [] class(d, n) = "Metalangue"        -> [p EXCEPT !.RedMeta = Text(d, n)]
      [] OTHER                             -> p

setBlue(p, blue) ==
    [p EXCEPT !.IsBlue = blue,
              !.Subphrases = [i \in 1..Len(p.Subphrases) |->
                                  [p.Subphrases[i] EXCEPT !.IsBlue = blue]]]

-----------------------------------------------------------------------------
(* Package traduction: phrases, items, subheaders (words.go) *)

Kids(d, p) == [i \in 1..Len(NodeAt(d, p).kids) |-> Append(p, i)]

RECURSIVE getPhraseFromZoneExpressionPanics(_, _)
getPhraseFromZoneExpressionPanics(d, z) ==
    \E n \in Range(Kids(d, z)) :
        \/ PhraseUpdatePanics(d, n)
        \/ /\ class(d, n) = "DivisionExpression"
           /\ \E li \in Range(FindAllByTag(d, n, "li")) :
                  getPhraseFromZoneExpressionPanics(d, li)

RECURSIVE getPhraseFromZoneExpression(_, _), PhraseFrom(_, _, _), SubphrasesOf(_, _)
getPhraseFromZoneExpression(d, zoneExpressionNode) ==
    PhraseFrom(d, FirstChild(d, zoneExpressionNode), ZeroPhrase)

PhraseFrom(d, n, p) ==
    IF n = Nil THEN p
    ELSE LET p1 == PhraseUpdate(d, p, n)
             p2 == IF class(d, n) = "DivisionExpression"
                   THEN [p1 EXCEPT !.Subphrases =
                                       @ \o SubphrasesOf(d, FindAllByTag(d, n, "li"))]
                   ELSE p1 IN
         PhraseFrom(d, NextSibling(d, n), p2)

SubphrasesOf(d, liNodes) ==
    IF liNodes = << >> THEN << >>
    ELSE <<getPhraseFromZoneExpression(d, Head(liNodes))>> \o SubphrasesOf(d, Tail(liNodes))

scrapeExpressions(d, n) ==
    LET blocExpressionNode == FindByClass(d, n, "BlocExpression") IN
    IF blocExpressionNode = Nil THEN << >>
    ELSE LET exprNodes == FindAllByClass(d, n, "ZoneExpression2") IN
         <<setBlue(getPhraseFromZoneExpression(d, blocExpressionNode), TRUE)>>
             \o [i \in 1..Len(exprNodes) |->
                     setBlue(getPhraseFromZoneExpression(d, exprNodes[i]), TRUE)]

scrapePhrases(d, n) ==
    LET exprNodes == FindAllByClass(d, n, "ZoneExpression1")
                         \o FindAllByClass(d, n, "ZoneExpression") IN
    [i \in 1..Len(exprNodes) |-> getPhraseFromZoneExpression(d, exprNodes[i])]
        \o scrapeExpressions(d, n)

scrapePhrasesPanics(d, n) ==
    \/ \E e \in Range(FindAllByClass(d, n, "ZoneExpression1")
                          \o FindAllByClass(d, n, "ZoneExpression")) :
           getPhraseFromZoneExpressionPanics(d, e)
    \/ /\ FindByClass(d, n, "BlocExpression") # Nil
       /\ \/ getPhraseFromZoneExpressionPanics(d, FindByClass(d, n, "BlocExpression"))
          \/ \E e \in Range(FindAllByClass(d, n, "ZoneExpression2")) :
                 getPhraseFromZoneExpressionPanics(d, e)

scrapeItemPanics(d, itemNode) ==
    scrapeMeaningsPanics(d, itemNode) \/ scrapePhrasesPanics(d, itemNode)

scrapeItem(d, itemNode) ==
    [Meanings |-> scrapeMeanings(d, itemNode), Phrases |-> scrapePhrases(d, itemNode)]

scrapeItemsPanics(d, itemNodes) == \E n \in Range(itemNodes) : scrapeItemPanics(d, n)

scrapeItems(d, itemNodes) == [i \in 1..Len(itemNodes) |-> scrapeItem(d, itemNodes[i])]

\* The item nodes of a content block or of a black node: its "itemZONESEM"
\* nodes, or the node itself when it has none.
ItemNodesOf(d, n) ==
    IF FindAllByClass(d, n, "itemZONESEM") = << >> THEN <<n>>
    ELSE FindAllByClass(d, n, "itemZONESEM")

hasBigWords(d, p) == Len(FindAllByClass(d, p, "itemBLSEM1")) > 0

getBlackNodes(d, p) == FindAllByClass(d, p, "itemBLSEM1") \o FindAllByClass(d, p, "itemBLSEM")

scrapeBlackTitle(d, blackNode) ==
    IF FindByClass(d, blackNode, "Indicateur2") # Nil
    THEN Text(d, FindByClass(d, blackNode, "Indicateur2"))
    ELSE << >>

scrapeBlackNode(d, blackNode) ==
    [Title |-> scrapeBlackTitle(d, blackNode),
     Items |-> scrapeItems(d, ItemNodesOf(d, blackNode))]

scrapeBlackNodesPanics(d, blackNodes) ==
    \E b \in Range(blackNodes) : scrapeItemsPanics(d, ItemNodesOf(d, b))

scrapeBlackNodes(d, blackNodes) ==
    [i \in 1..Len(blackNodes) |-> scrapeBlackNode(d, blackNodes[i])]

ZoneEntreeNodes(d) == FindAllByClass(d, << >>, "ZoneEntree")

\* Both node getters fail when some ZoneEntree has no next sibling.
getZoneEntreeNodesFails(d) ==
    \E z \in Range(ZoneEntreeNodes(d)) : NextSibling(d, z) = Nil

getBigWordZoneEntreeNodes(d) ==
    SelectSeq(ZoneEntreeNodes(d), LAMBDA z : hasBigWords(d, NextSibling(d, z)))

\* A getter without the "continue" on a node followed by big-word content.
getEveryZoneEntreeNode(d) == ZoneEntreeNodes(d)

getSmallWordZoneEntreeNodes(d) ==
    SelectSeq(ZoneEntreeNodes(d), LAMBDA z : ~ hasBigWords(d, NextSibling(d, z)))

\* A conversion that titles the synthetic Subheader after the word.
toWordTitled(sw) ==
    [Code |-> sw.Code, Header |-> sw.Header,
     Subheaders |-> <<[Title |-> sw.Header.Text, Items |-> sw.Items]>>]

toWord(sw) ==
    [Code |-> sw.Code, Header |-> sw.Header,
     Subheaders |-> <<[Title |-> << >>, Items |-> sw.Items]>>]

-----------------------------------------------------------------------------
(* Package laroussefr (laroussefr.go) *)

isPageIDnode(d, p) == NodeAt(d, p).tag = "link" /\ AttrRel(d, p) = "canonical"

\* The trailing integer of a link: [ok, v], ok false for each error return.
TrailingID(link) ==
    IF LastSlash(link) = 0 THEN [ok |-> FALSE, v |-> -1]
    ELSE LET a == Atoi(SubSeq(link, LastSlash(link) + 1, Len(link))) IN
         IF a.ok THEN a ELSE [ok |-> FALSE, v |-> -1]

GetPageID(d) ==
    LET n == Find(d, << >>, isPageIDnode) IN
    IF n = Nil THEN [ok |-> FALSE, v |-> -1] ELSE TrailingID(AttrHref(d, n))

GetPageIDFromURL(url) == TrailingID(url)

GetPageIDsFromURLs(urls) ==
    IF \E i \in 1..Len(urls) : ~ GetPageIDFromURL(urls[i]).ok
    THEN [ok |-> FALSE, v |-> << >>]
    ELSE [ok |-> TRUE, v |-> [i \in 1..Len(urls) |-> GetPageIDFromURL(urls[i]).v]]

SiteRoot == <<"https:", "/", "/", "larousse.fr">>

\* url.PathUnescape: "%ZZ" stands for a malformed escape, "%20" for a good one.
PathUnescapeFails(s) == "%ZZ" \in Range(s)

PathUnescape(s) == [i \in 1..Len(s) |-> IF s[i] = "%20" THEN " " ELSE s[i]]

\* The carousel nodes GetSimilarWords reads: all "item-word" nodes but the first.
SimilarNodes(d) ==
    LET nodes == FindAllByClass(d, << >>, "item-word") IN
    IF Len(nodes) <= 1 THEN << >> ELSE Tail(nodes)

\* The nodes visited before GetSimilarWords returns: up to the first bad href.
RECURSIVE SimilarWordsFrom(_, _, _)
SimilarWordsFrom(d, nodes, out) ==
    IF nodes = << >> THEN [st |-> "ok", v |-> out]
    ELSE LET m == FirstChild(d, Head(nodes)) IN
         IF m = Nil THEN [st |-> "panic", v |-> << >>]
         ELSE IF AttrHref(d, m) = << >> THEN SimilarWordsFrom(d, Tail(nodes), out)
         ELSE IF PathUnescapeFails(AttrHref(d, m)) THEN [st |-> "err", v |-> << >>]
         ELSE SimilarWordsFrom(d, Tail(nodes),
                               Append(out, SiteRoot \o PathUnescape(AttrHref(d, m))))

GetSimilarWords(d) == SimilarWordsFrom(d, SimilarNodes(d), << >>)

IsWordNotFoundPage(d) == FindByClass(d, << >>, "corrector") # Nil

hasSuggestions(d) == FindByClass(d, << >>, "err") = Nil

\* The list items GetSearchSuggestions walks.
SuggestionNodes(d) ==
    IF IsWordNotFoundPage(d) /\ hasSuggestions(d)
    THEN FindAllByTag(d, FindByClass(d, << >>, "corrector"), "li")
    ELSE << >>

\* scrape.Attr(a, "href") dereferences a, which is nil for an item with no link.
GetSearchSuggestionsPanics(d) ==
    \E li \in Range(SuggestionNodes(d)) : FindByTag(d, li, "a") = Nil

GetSearchSuggestions(d) ==
    [i \in 1..Len(SuggestionNodes(d)) |->
         SiteRoot \o AttrHref(d, FindByTag(d, SuggestionNodes(d)[i], "a"))]

-----------------------------------------------------------------------------
(* Package traduction: the code of a word (words.go) *)

getWordCodeFromZoneEntreeNode(d, n) ==
    LET m == PrevSibling(d, n) IN
    IF m = Nil
    THEN IF Parent(n) = Nil THEN [ok |-> FALSE, v |-> -1]
         ELSE IF AttrLink(d, Parent(n)) = << >> THEN [ok |-> FALSE, v |-> -1]
         ELSE LET a == Atoi(Tail(AttrLink(d, Parent(n)))) IN
              IF a.ok THEN a ELSE [ok |-> FALSE, v |-> -1]
    ELSE IF AttrId(d, m) = << >> THEN [ok |-> FALSE, v |-> -1]
         ELSE LET a == Atoi(AttrId(d, m)) IN
              IF a.ok THEN a ELSE [ok |-> FALSE, v |-> -1]

\* A resolver that reads the code of every entry, the first included, off its anchor.
getCodeFuncFromAnchor(i, d, zoneEntreeNode) == getWordCodeFromZoneEntreeNode(d, zoneEntreeNode)

\* One activation of getWordCode(i, doc, zoneEntreeNode): the getCodeFunc it
\* picks and calls.  When ok is false the activation calls getWordCode(i-1, ...).
getCodeFunc(i, d, zoneEntreeNode) ==
    IF i = 0 THEN GetPageID(d) ELSE getWordCodeFromZoneEntreeNode(d, zoneEntreeNode)

-----------------------------------------------------------------------------
(* Package traduction: the comparators (traduction.go).  A comparator       *)
(* returns [msg, ok]; msg is the path of labels the message is built from.  *)

Equal == [msg |-> << >>, ok |-> TRUE]

Differ(label) == [msg |-> <<label>>, ok |-> FALSE]

\* fmt.Sprintf("Field[%d]: %s", i, message), i counted from 0.
At(field, i, r) == [msg |-> <<field, ToString(i - 1)>> \o r.msg, ok |-> FALSE]

\* The first position of 1..n at which Bad holds, 0 when there is none.
FirstBad(n, Bad(_)) ==
    IF \E i \in 1..n : Bad(i)
    THEN CHOOSE i \in 1..n : Bad(i) /\ \A j \in 1..(i - 1) : ~ Bad(j)
    ELSE 0

MeaningEquals(m, n) ==
    CASE m.Text # n.Text       -> Differ("Text")
      [] m.RedBrac # n.RedBrac -> Differ("RedBrac")
      [] m.RedCaps # n.RedCaps -> Differ("RedCaps")
      [] m.RedMeta # n.RedMeta -> Differ("RedMeta")
      [] OTHER                 -> Equal

equalStringFields(p, q) ==
    CASE p.Text1 # q.Text1     -> Differ("Text1")
      [] p.Text2 # q.Text2     -> Differ("Text2")
      [] p.Audio1 # q.Audio1   -> Differ("Audio1")
      [] p.Audio2 # q.Audio2   -> Differ("Audio2")
      [] p.RedBrac # q.RedBrac -> Differ("Text1")
      [] p.RedCaps # q.RedCaps -> Differ("RedCaps")
      [] p.RedMeta # q.RedMeta -> Differ("RedMeta")
      [] p.IsBlue # q.IsBlue   -> Differ("IsBlue")
      [] OTHER                 -> Equal

\* "message, ok := a; if !ok { return message, false }", then the rest.
Then(a, rest) == IF ~ a.ok THEN a ELSE rest

\* "for i := range xs { message, ok := xs[i].equals(ys[i]); if !ok { return
\* fmt.Sprintf("Field[%d]: %s", i, message), false } }", n being len(xs) and
\* Compare(i) the comparison of the pair at i.
Each(field, n, Compare(_)) ==
    LET i == FirstBad(n, LAMBDA k : ~ Compare(k).ok) IN
    IF i = 0 THEN Equal ELSE At(field, i, Compare(i))

\* Whether "for i := range xs { a := xs[i]; b := ys[i]; ... }" fails at run
\* time: it reaches an index past the end of ys, or the comparison of a pair
\* does.  Compare(i) is the comparison of the pair at i.
IndexPanics(xs, ys, Compare(_), Panics(_)) ==
    \E i \in 1..Len(xs) :
        /\ \A j \in 1..(i - 1) : j <= Len(ys) /\ ~ Panics(j) /\ Compare(j).ok
        /\ (i > Len(ys) \/ Panics(i))

RECURSIVE PhraseEquals(_, _)
PhraseEquals(p, q) ==
    Then(equalStringFields(p, q),
    Then(IF Len(p.Subphrases) # Len(q.Subphrases) THEN Differ("len(Subphrases)") ELSE Equal,
         Each("Subphrases", Len(p.Subphrases),
              LAMBDA k : PhraseEquals(p.Subphrases[k], q.Subphrases[k]))))

RECURSIVE PhraseEqualsPanics(_, _)
PhraseEqualsPanics(p, q) ==
    /\ equalStringFields(p, q).ok
    /\ Len(p.Subphrases) = Len(q.Subphrases)
    /\ IndexPanics(p.Subphrases, q.Subphrases,
                   LAMBDA k : PhraseEquals(p.Subphrases[k], q.Subphrases[k]),
                   LAMBDA k : PhraseEqualsPanics(p.Subphrases[k], q.Subphrases[k]))

ItemEqualLens(i, t) ==
    IF Len(i.Meanings) # Len(t.Meanings) THEN Differ("len(Meanings)")
    ELSE IF Len(i.Phrases) # Len(t.Phrases) THEN Differ("len(Phrases)")
    ELSE Equal

equalMeanings(i, t) ==
    Each("Meanings", Len(i.Meanings), LAMBDA k : MeaningEquals(i.Meanings[k], t.Meanings[k]))

equalMeaningsPanics(i, t) ==
    IndexPanics(i.Meanings, t.Meanings,
                LAMBDA k : MeaningEquals(i.Meanings[k], t.Meanings[k]), LAMBDA k : FALSE)

equalPhrases(i, t) ==
    Each("Phrases", Len(i.Phrases), LAMBDA k : PhraseEquals(i.Phrases[k], t.Phrases[k]))

equalPhrasesPanics(i, t) ==
    IndexPanics(i.Phrases, t.Phrases,
                LAMBDA k : PhraseEquals(i.Phrases[k], t.Phrases[k]),
                LAMBDA k : PhraseEqualsPanics(i.Phrases[k], t.Phrases[k]))

ItemEquals(i, t) ==
    Then(ItemEqualLens(i, t), Then(equalMeanings(i, t), equalPhrases(i, t)))

ItemEqualsPanics(i, t) ==
    /\ ItemEqualLens(i, t).ok
    /\ (equalMeaningsPanics(i, t) \/ (equalMeanings(i, t).ok /\ equalPhrasesPanics(i, t)))

equalItems(s, t) ==
    Each("Items", Len(s.Items), LAMBDA k : ItemEquals(s.Items[k], t.Items[k]))

equalItemsPanics(s, t) ==
    IndexPanics(s.Items, t.Items,
                LAMBDA k : ItemEquals(s.Items[k], t.Items[k]),
                LAMBDA k : ItemEqualsPanics(s.Items[k], t.Items[k]))

SubheaderEquals(s, t) ==
    IF s.Title # t.Title THEN Differ("Title")
    ELSE IF Len(s.Items) # Len(t.Items) THEN Differ("len(Items)")
    ELSE equalItems(s, t)

SubheaderEqualsPanics(s, t) ==
    s.Title = t.Title /\ Len(s.Items) = Len(t.Items) /\ equalItemsPanics(s, t)

HeaderEquals(h, i) ==
    CASE h.Text # i.Text         -> Differ("Text")
      [] h.TextAlt # i.TextAlt   -> Differ("TextAlt")
      [] h.Phonetic # i.Phonetic -> Differ("Phonetic")
      [] h.Audio # i.Audio       -> Differ("Audio")
      [] h.Type # i.Type         -> Differ("Type")
      [] OTHER                   -> Equal

\* fmt.Sprintf("Header: %s", message)
Under(field, r) == IF r.ok THEN r ELSE [msg |-> <<field>> \o r.msg, ok |-> FALSE]

equalSubheaders(w, u) ==
    Each("Subheaders", Len(w.Subheaders),
         LAMBDA k : SubheaderEquals(w.Subheaders[k], u.Subheaders[k]))

equalSubheadersPanics(w, u) ==
    IndexPanics(w.Subheaders, u.Subheaders,
                LAMBDA k : SubheaderEquals(w.Subheaders[k], u.Subheaders[k]),
                LAMBDA k : SubheaderEqualsPanics(w.Subheaders[k], u.Subheaders[k]))

WordEquals(w, u) ==
    IF w.Code # u.Code THEN Differ("Code")
    ELSE IF Len(w.Subheaders) # Len(u.Subheaders) THEN Differ("len(Subheaders)")
    ELSE Then(Under("Header", HeaderEquals(w.Header, u.Header)), equalSubheaders(w, u))

WordEqualsPanics(w, u) ==
    /\ w.Code = u.Code
    /\ Len(w.Subheaders) = Len(u.Subheaders)
    /\ HeaderEquals(w.Header, u.Header).ok
    /\ equalSubheadersPanics(w, u)

equalPageIDs(r, q) == IF r.PageID # q.PageID THEN Differ("PageID") ELSE Equal

\* equalLens as it would be if it left the lengths of Words uncompared.
equalLensOfSeeAlso(r, q) ==
    IF Len(r.SeeAlso) # Len(q.SeeAlso) THEN Differ("len(SeeAlso)") ELSE Equal

equalLens(r, q) ==
    IF Len(r.Words) # Len(q.Words) THEN Differ("len(Words)")
    ELSE IF Len(r.SeeAlso) # Len(q.SeeAlso) THEN Differ("len(SeeAlso)")
    ELSE Equal

equalWords(r, q) ==
    Each("Words", Len(r.Words), LAMBDA k : WordEquals(r.Words[k], q.Words[k]))

equalWordsPanics(r, q) ==
    IndexPanics(r.Words, q.Words,
                LAMBDA k : WordEquals(r.Words[k], q.Words[k]),
                LAMBDA k : WordEqualsPanics(r.Words[k], q.Words[k]))

\* equalSeeAlsoIDs as it would be if it compared the URLs themselves.
equalSeeAlsoURLs(r, q) ==
    LET j == FirstBad(Len(r.SeeAlso), LAMBDA k : r.SeeAlso[k] # q.SeeAlso[k]) IN
    IF j = 0 THEN Equal ELSE At("SeeAlso", j, Differ("different URL"))

equalSeeAlsoIDs(r, q) ==
    LET rSeeAlsoIDs == GetPageIDsFromURLs(r.SeeAlso)
        qSeeAlsoIDs == GetPageIDsFromURLs(q.SeeAlso) IN
    IF ~ rSeeAlsoIDs.ok THEN Differ("GetPageIDsFromURLs")
    ELSE IF ~ qSeeAlsoIDs.ok THEN Differ("GetPageIDsFromURLs")
    ELSE IF Len(rSeeAlsoIDs.v) # Len(qSeeAlsoIDs.v) THEN Differ("len(xSeeAlsoIDs)")
    ELSE LET j == FirstBad(Len(r.SeeAlso), LAMBDA k : rSeeAlsoIDs.v[k] # qSeeAlsoIDs.v[k]) IN
         IF j = 0 THEN Equal ELSE At("SeeAlso", j, Differ("different page ID at end of URL"))

\* rSeeAlsoIDs[i] and qSeeAlsoIDs[i] for i over r.SeeAlso
equalSeeAlsoIDsPanics(r, q) ==
    LET rSeeAlsoIDs == GetPageIDsFromURLs(r.SeeAlso)
        qSeeAlsoIDs == GetPageIDsFromURLs(q.SeeAlso) IN
    /\ rSeeAlsoIDs.ok /\ qSeeAlsoIDs.ok
    /\ Len(rSeeAlsoIDs.v) = Len(qSeeAlsoIDs.v)
    /\ IndexPanics(r.SeeAlso, qSeeAlsoIDs.v,
                   LAMBDA k : IF rSeeAlsoIDs.v[k] # qSeeAlsoIDs.v[k] THEN Differ("SeeAlso")
                              ELSE Equal,
                   LAMBDA k : FALSE)

ResultEquals(r, q) ==
    Then(equalPageIDs(r, q),
    Then(equalLens(r, q),
    Then(equalWords(r, q), equalSeeAlsoIDs(r, q))))

ResultEqualsPanics(r, q) ==
    /\ equalPageIDs(r, q).ok
    /\ equalLens(r, q).ok
    /\ (equalWordsPanics(r, q) \/ (equalWords(r, q).ok /\ equalSeeAlsoIDsPanics(r, q)))

-----------------------------------------------------------------------------
(* Package definition: the comparators.  The element types that hold only  *)
(* scalar fields (Definition, Expression, Homonyme, Difficulte, Citation)  *)
(* are compared field by field in the declared order.                      *)

\* The equals of a type of scalar fields: the first of fields that differs.
FieldsEqual(a, b, fields) ==
    LET i == FirstBad(Len(fields), LAMBDA k : a[fields[k]] # b[fields[k]]) IN
    IF i = 0 THEN Equal ELSE Differ(fields[i])

definitionHeaderEquals(h, i) == FieldsEqual(h, i, <<"Texte", "Audio", "Type">>)

DefinitionEquals(d, e) == FieldsEqual(d, e, <<"Texte", "RedBig", "RedSmall">>)

ExpressionEquals(e, f) == FieldsEqual(e, f, <<"Texte", "RedBig", "RedSmall">>)

HomonymeEquals(h, i) == FieldsEqual(h, i, <<"Texte", "Type">>)

DifficulteEquals(d, e) == FieldsEqual(d, e, <<"Type", "Texte">>)

CitationEquals(c, d) ==
    FieldsEqual(c, d, <<"ID", "Auteur", "InfoAuteur", "Texte", "Info">>)

\* The comparison of two strings of a list
StringEquals(a, b) == IF a # b THEN Differ("string") ELSE Equal

equalSynonymes(r, q) ==
    Each("Synonymes", Len(r.Synonymes), LAMBDA k : StringEquals(r.Synonymes[k], q.Synonymes[k]))

equalContraires(r, q) ==
    Each("Contraires", Len(r.Contraires),
         LAMBDA k : StringEquals(r.Contraires[k], q.Contraires[k]))

\* The checks of the lengths of Relation.equals
RelationEqualLens(r, q) ==
    IF Len(r.Synonymes) # Len(q.Synonymes) THEN Differ("len(Synonymes)")
    ELSE IF Len(r.Contraires) # Len(q.Contraires) THEN Differ("len(Contraires)")
    ELSE Equal

RelationEquals(r, q) ==
    IF r.Texte # q.Texte THEN Differ("Texte")
    ELSE Then(RelationEqualLens(r, q), Then(equalSynonymes(r, q), equalContraires(r, q)))

RelationEqualsPanics(r, q) ==
    /\ r.Texte = q.Texte
    /\ RelationEqualLens(r, q).ok
    /\ \/ IndexPanics(r.Synonymes, q.Synonymes,
                      LAMBDA k : StringEquals(r.Synonymes[k], q.Synonymes[k]), LAMBDA k : FALSE)
       \/ /\ equalSynonymes(r, q).ok
          /\ IndexPanics(r.Contraires, q.Contraires,
                         LAMBDA k : StringEquals(r.Contraires[k], q.Contraires[k]),
                         LAMBDA k : FALSE)

\* The slice fields of the Result of package definition whose elements have
\* an equals of their own, in the order equalLens and equals take them.
ListFields == <<"Definitions", "Expressions", "Relations", "Homonymes", "Difficultes", "Citations">>

ElementEquals(field, a, b) ==
    CASE field = "Definitions" -> DefinitionEquals(a, b)
      [] field = "Expressions" -> ExpressionEquals(a, b)
      [] field = "Relations"   -> RelationEquals(a, b)
      [] field = "Homonymes"   -> HomonymeEquals(a, b)
      [] field = "Difficultes" -> DifficulteEquals(a, b)
      [] field = "Citations"   -> CitationEquals(a, b)

definitionEqualLens(r, q) ==
    LET fields == ListFields \o <<"SeeAlso">>
        i == FirstBad(Len(fields), LAMBDA k : Len(r[fields[k]]) # Len(q[fields[k]])) IN
    IF i = 0 THEN Equal ELSE Differ("len(" \o fields[i] \o ")")

\* equalDefinitions, ..., equalCitations
equalElements(field, r, q) ==
    Each(field, Len(r[field]), LAMBDA k : ElementEquals(field, r[field][k], q[field][k]))

\* Whether one of equalDefinitions, ..., equalCitations reaches an index past
\* the end of the list of q, or RelationEquals does for a pair of Relations.
equalElementsPanics(field, r, q) ==
    IndexPanics(r[field], q[field],
                LAMBDA k : ElementEquals(field, r[field][k], q[field][k]),
                LAMBDA k : field = "Relations" /\ RelationEqualsPanics(r[field][k], q[field][k]))

\* The comparisons of the lists of elements, from the one at position i on.
RECURSIVE equalLists(_, _, _), equalListsPanics(_, _, _)
equalLists(i, r, q) ==
    IF i > Len(ListFields) THEN Equal
    ELSE Then(equalElements(ListFields[i], r, q), equalLists(i + 1, r, q))

equalListsPanics(i, r, q) ==
    /\ i <= Len(ListFields)
    /\ \/ equalElementsPanics(ListFields[i], r, q)
       \/ equalElements(ListFields[i], r, q).ok /\ equalListsPanics(i + 1, r, q)

definitionResultEquals(r, q) ==
    Then(equalPageIDs(r, q),
    Then(Under("Header", definitionHeaderEquals(r.Header, q.Header)),
    Then(definitionEqualLens(r, q),
    Then(equalLists(1, r, q), equalSeeAlsoIDs(r, q)))))

definitionResultEqualsPanics(r, q) ==
    /\ equalPageIDs(r, q).ok
    /\ definitionHeaderEquals(r.Header, q.Header).ok
    /\ definitionEqualLens(r, q).ok
    /\ \/ equalListsPanics(1, r, q)
       \/ equalLists(1, r, q).ok /\ equalSeeAlsoIDsPanics(r, q)

-----------------------------------------------------------------------------
(* Pages: the parse trees the fetch layer can hand to the extraction *)

MaxNest  == 1   \* depth of "DivisionExpression" lists nested inside list items
MaxWords == 3   \* entries ("ZoneEntree" nodes) on a page
MaxSugg  == 2   \* list items of a "corrector" block

T(word) == TextNode(<<word>>)

Span(cl, word) == Elem("span", cl, <<T(word)>>)

WithHref(n, h) == [n EXCEPT !.href = h]
WithId(n, i)   == [n EXCEPT !.id = i]
WithLink(n, l) == [n EXCEPT !.link = l]
WithSrc(n, x)  == [n EXCEPT !.src = x]
WithRel(n, r)  == [n EXCEPT !.rel = r]

\* "/dictionnaires-prononciation/" and an audio source below it.
AudioPrefix ==
    <<"/", "d", "i", "c", "t", "i", "o", "n", "n", "a", "i", "r", "e", "s", "-",
      "p", "r", "o", "n", "o", "n", "c", "i", "a", "t", "i", "o", "n", "/">>

GoodSrc == AudioPrefix \o <<"fra", "/", "tts", "/", "64636fra2">>

Audio(src) == WithSrc(Elem("audio", "", << >>), src)

\* List items of a "DivisionExpression", nested up to k levels.
RECURSIVE LiSet(_), LiSeqs(_)
LiBase == Elem("li", "", <<Span("Locution2", "sub"), Span("Traduction2", "subtr")>>)

DivisionExpression(lis) == Elem("ol", "DivisionExpression", lis)

LiSet(k) ==
    IF k = 0 THEN {LiBase}
    ELSE LiSet(k - 1) \cup
         {Elem("li", "", <<Span("Locution2", "sub"), DivisionExpression(lis)>>) :
              lis \in LiSeqs(k - 1)}

LiSeqs(k) == {<<a>> : a \in LiSet(k)} \cup {<<a, LiBase>> : a \in LiSet(k)}

\* The children of an expression zone: texts, then at most one list.
ZoneKidsSet ==
    {<<Span("Locution2", "expr"), Span("Traduction2", "tr")>> \o dv :
         dv \in {<< >>} \cup {<<DivisionExpression(lis)>> : lis \in LiSeqs(MaxNest)}}

MeaningKids == <<Span("Indicateur", "ctx"), Span("Traduction", "short")>>

\* A main text node with a source-audio marker inside it, and a source-audio
\* marker with another recording to stand beside it.
OtherSrc == AudioPrefix \o <<"fra", "/", "tts", "/", "19682fra2">>

NestedLocution ==
    Elem("span", "Locution2", <<T("expr"), Span("lienson3", "s"), Audio(GoodSrc)>>)

SiblingAudio == <<Span("lienson3", "s"), Audio(OtherSrc)>>

AudioZoneKidsSet ==
    {<<NestedLocution>>, <<NestedLocution>> \o SiblingAudio, SiblingAudio \o <<NestedLocution>>,
     <<Span("Locution2", "expr")>> \o SiblingAudio}

ItemNode(kids) == Elem("li", "itemZONESEM", kids)

ItemSet ==
    {ItemNode(MeaningKids)}
        \cup {ItemNode(MeaningKids \o <<Elem("div", "ZoneExpression1", zk)>>) : zk \in ZoneKidsSet}
        \cup {ItemNode(MeaningKids \o <<Elem("div", "BlocExpression", zk)>>) : zk \in ZoneKidsSet}
        \cup {ItemNode(MeaningKids \o
                   <<Elem("div", "ZoneExpression", <<Span("Locution2", "ex")>>),
                     Elem("div", "BlocExpression",
                          <<Span("Locution2", "expr"), Elem("div", "ZoneExpression2", zk)>>)>>) :
                  zk \in ZoneKidsSet}
        \cup {ItemNode(<<Elem("div", "division-semantique", MeaningKids),
                     Elem("div", "division-semantique",
                          <<Span("IndicateurDomaine", "sport"), Span("Traduction", "brief")>>)>>),
              ItemNode(<<Elem("div", "ZoneExpression1",
                          <<Span("lienson3", "s"), T(" ")>>)>>),
              ItemNode(<< >>),
              ItemNode(MeaningKids \o <<ItemNode(<<Span("Traduction", "brief")>>)>>),
              ItemNode(MeaningKids \o
                  <<Elem("div", "ZoneExpression", <<Span("Locution2", "ex")>>),
                    Elem("div", "ZoneExpression1", <<Span("Locution2", "expr")>>)>>),
              ItemNode(MeaningKids \o
                  <<Elem("div", "BlocExpression", <<Span("Locution2", "expr")>>),
                    Elem("div", "ZoneExpression", <<Span("Locution2", "ex")>>)>>),
              ItemNode(<<Elem("div", "division-semantique",
                              MeaningKids \o
                                  <<Elem("div", "division-semantique",
                                         <<Span("IndicateurDomaine", "sport"),
                                           Span("Traduction", "brief")>>)>>)>>),
              ItemNode(MeaningKids \o
                  <<Elem("div", "division-semantique", <<T(" ")>>),
                    Elem("div", "division-semantique", <<Span("Traduction", "brief")>>)>>),
              ItemNode(MeaningKids \o
                  <<Elem("div", "ZoneExpression2", <<Span("Locution2", "expr")>>)>>),
              ItemNode(MeaningKids \o
                  <<Elem("div", "BlocExpression", <<Span("Locution2", "expr")>>),
                    Elem("div", "ZoneExpression2", <<Span("Locution2", "ex")>>),
                    Elem("div", "ZoneExpression2", <<Span("Locution2", "sub")>>)>>)}
        \cup {ItemNode(MeaningKids \o <<Elem("div", "ZoneExpression1", zk)>>) :
                  zk \in AudioZoneKidsSet}

ZoneEntreeSet ==
    {Elem("div", "ZoneEntree", <<Span("Adresse", "court")>>),
     Elem("div", "ZoneEntree",
          <<Span("lienson", "s"), Audio(GoodSrc), Span("Adresse", "court"),
            Elem("span", "FormeFlechieAdresse", <<TextNode(<<"(", " ", "f", " ", "courte", ")">>)>>),
            Span("Phonetique", "kur"),
            Elem("span", "ZoneGram", <<T("adjectif"), T("Conjugaison")>>)>>),
     Elem("div", "ZoneEntree", <<Span("Adresse", "court"), Span("lienson", "s")>>),
     Elem("div", "ZoneEntree", <<Span("lienson", "s"), Span("Adresse", "court")>>),
     Elem("div", "ZoneEntree", <<Span("Adresse", "court"), Span("lienson", "s"), T(" ")>>),
     Elem("div", "ZoneEntree", <<Span("Phonetique", "kur")>>)}

PlainZoneEntree == Elem("div", "ZoneEntree", <<Span("Adresse", "court")>>)

ZoneTexte(kids) == Elem("div", "ZoneTexte", kids)

Black(cl, kids) == Elem("div", cl, kids)

\* Content blocks: of small words, then of big words.
SmallTexteSet ==
    {ZoneTexte(<<it>>) : it \in ItemSet}
        \cup {ZoneTexte(<<ItemNode(MeaningKids), it>>) : it \in ItemSet}
        \cup {ZoneTexte(MeaningKids), ZoneTexte(<< >>),
              ZoneTexte(<<Black("itemBLSEM", <<Span("Indicateur2", "TITRE"), ItemNode(MeaningKids)>>)>>)}

BigTexteSet ==
    {ZoneTexte(<<Black("itemBLSEM1", <<Span("Indicateur2", "ESPACE"), it>>)>>) : it \in ItemSet}
        \cup {ZoneTexte(<<Black("itemBLSEM1", <<Span("Indicateur2", "ESPACE"), ItemNode(MeaningKids)>>),
                          Black("itemBLSEM", <<Span("Indicateur2", "TEMPS"), ItemNode(MeaningKids)>>),
                          Black("itemBLSEM", <<ItemNode(MeaningKids)>>)>>),
              ZoneTexte(<<Black("itemBLSEM1", MeaningKids)>>),
              ZoneTexte(<<Black("itemBLSEM1", << >>)>>),
              ZoneTexte(<<Black("itemBLSEM1",
                                <<Span("Indicateur2", "ESPACE"), ItemNode(MeaningKids),
                                  Black("itemBLSEM1",
                                        <<Span("Indicateur2", "TEMPS"), ItemNode(MeaningKids)>>)>>)>>)}

PlainTexte(kind) ==
    IF kind = "big"
    THEN ZoneTexte(<<Black("itemBLSEM1", <<Span("Indicateur2", "ESPACE"), ItemNode(MeaningKids)>>)>>)
    ELSE ZoneTexte(<<ItemNode(MeaningKids)>>)

\* One entry of a page: how its code is marked up, its anchor, its content.
CodeForms == {"id", "noid", "badid", "link", "nolink", "badlink"}

Anchor == Elem("a", "", << >>)

Entry(form, ze, zt) ==
    CASE form = "id"      -> Elem("div", "", <<WithId(Anchor, <<"2", "0", "0">>), ze>> \o zt)
      [] form = "noid"    -> Elem("div", "", <<Anchor, ze>> \o zt)
      [] form = "badid"   -> Elem("div", "", <<WithId(Anchor, <<"x", "9">>), ze>> \o zt)
      [] form = "link"    -> WithLink(Elem("div", "", <<ze>> \o zt), <<"a", "3", "0", "0">>)
      [] form = "nolink"  -> Elem("div", "", <<ze>> \o zt)
      [] form = "badlink" -> WithLink(Elem("div", "", <<ze>> \o zt), <<"a", "x">>)

PlainEntry(form, kind) == Entry(form, PlainZoneEntree, <<PlainTexte(kind)>>)

Canonical(h) == WithHref(WithRel(Elem("link", "", << >>), "canonical"), h)

GoodCanonical == Canonical(<<"/", "d", "/", "court", "/", "1", "0", "0">>)

CanonicalSet ==
    {<< >>, <<Canonical(<<"1", "0", "0">>)>>, <<Canonical(<<"/", "d", "/", "court">>)>>,
     <<Elem("link", "", << >>), GoodCanonical>>}

ItemWord(kids) == Elem("div", "item-word", kids)

CarouselSet ==
    {<<ItemWord(<< >>)>>,
     <<ItemWord(<< >>), ItemWord(<<WithHref(Anchor, <<"/", "d", "/", "cour", "/", "7">>)>>),
       ItemWord(<<WithHref(Anchor, <<"/", "d", "/", "cou%20", "/", "8">>)>>)>>,
     <<ItemWord(<< >>), ItemWord(<<Anchor>>)>>,
     <<ItemWord(<< >>), ItemWord(<<WithHref(Anchor, <<"/", "d", "/", "cour">>)>>)>>,
     <<ItemWord(<< >>), ItemWord(<<WithHref(Anchor, <<"/", "d", "/", "%ZZ", "/", "7">>)>>)>>,
     <<ItemWord(<< >>), ItemWord(<< >>)>>}

Page(kids) == Elem("html", "", kids)

SeqsUpTo(S, n) == UNION {[1..m -> S] : m \in 0..n}

\* Pages of words whose codes are marked up in every way, of both kinds.
CodePages ==
    {Page(<<GoodCanonical, PlainEntry(f, "small")>> \o es) :
         f \in {"id", "noid"},
         es \in SeqsUpTo({PlainEntry(g, "small") : g \in CodeForms}, MaxWords - 1)}
        \cup
    {Page(<<GoodCanonical>> \o es) :
         es \in SeqsUpTo({PlainEntry(f, k) : f \in {"id", "noid"}, k \in {"small", "big"}},
                         MaxWords)}

ContentPages ==
    {Page(<<GoodCanonical, Entry("id", PlainZoneEntree, <<zt>>)>>) :
         zt \in SmallTexteSet \cup BigTexteSet}
        \cup {Page(<<GoodCanonical, Entry("id", ze, <<PlainTexte("small")>>)>>) : ze \in ZoneEntreeSet}
        \cup {Page(<<GoodCanonical, Entry("id", PlainZoneEntree, << >>)>>)}
        \cup {Page(<<GoodCanonical, PlainEntry("id", "big"), Entry("noid", PlainZoneEntree, <<zt>>)>>) :
                  zt \in SmallTexteSet}
        \cup {Page(<<GoodCanonical, PlainEntry("id", "big"),
                     Entry("noid", Elem("div", "ZoneEntree", <<Span("Phonetique", "kur")>>),
                           <<PlainTexte("small")>>)>>)}
        \cup {Page(<<GoodCanonical, PlainEntry("id", k1),
                     Entry("id", Elem("div", "ZoneEntree", <<Span("Adresse", "adjectif")>>),
                           <<PlainTexte(k2)>>)>>) : k1, k2 \in {"small", "big"}}

CanonicalPages ==
    {Page(c \o es) : c \in CanonicalSet, es \in {<< >>, <<PlainEntry("noid", "small")>>}}

CarouselPages ==
    {Page(<<GoodCanonical, PlainEntry("id", "small")>> \o c) : c \in CarouselSet}

\* "Word not found" pages: a "corrector" block of list items, and maybe the
\* "no suggestions" paragraph of class "err".
Suggestion(h) == Elem("li", "", <<WithHref(Anchor, h)>>)

SuggestionSet ==
    {Suggestion(<<"/", "d", "/", "vert", "/", "8", "1">>),
     Suggestion(<<"/", "d", "/", "verre", "/", "8", "2">>),
     Suggestion(<<"/", "d", "/", "vers">>),
     Elem("li", "", <<Anchor>>),
     Elem("li", "", <<T("ver")>>),
     Elem("li", "", <<WithHref(Anchor, <<"/", "d", "/", "vert", "/", "8", "1">>),
                      Elem("ul", "", <<Suggestion(<<"/", "d", "/", "verte", "/", "8", "3">>)>>)>>)}

Corrector(lis) == Elem("section", "corrector", <<Elem("ul", "", lis)>>)

NotFoundPages ==
    {Page(c \o <<Corrector(lis)>> \o e) :
         c \in {<< >>, <<GoodCanonical, PlainEntry("id", "small")>>},
         lis \in SeqsUpTo(SuggestionSet, MaxSugg),
         e \in {<< >>, <<Elem("p", "err", <<T("aucune")>>)>>}}

TraductionPages == CodePages \cup ContentPages \cup CanonicalPages \cup CarouselPages
                       \cup NotFoundPages

-----------------------------------------------------------------------------
(* Package definition: matchers (definition/match) *)

HeaderTexteNode(d, n) ==
    /\ isTextNode(d, n)
    /\ PrevSibling(d, n) # Nil
    /\ NodeAt(d, PrevSibling(d, n)).tag = "audio"

HeaderAudioNode(d, n) == NodeAt(d, n).tag = "audio"

HeaderTypeNode(d, n) ==
    /\ Parent(n) # Nil
    /\ NodeAt(d, Parent(n)).tag = "p" /\ class(d, Parent(n)) = "CatgramDefinition"

TagClass(t, c, d, n) == NodeAt(d, n).tag = t /\ class(d, n) = c

matchDefinitionNode(d, n) == TagClass("li", "DivisionDefinition", d, n) /\ FirstChild(d, n) # Nil
matchExpressionNode(d, n) == TagClass("li", "Locution", d, n)
matchHomonymeNode(d, n)   == TagClass("li", "Homonyme", d, n)
matchDifficulteNode(d, n) == TagClass("li", "Difficulte", d, n)
matchCitationNode(d, n)   == TagClass("li", "Citation", d, n)

matchRelationNodeAnyTag(d, n) ==
    /\ TagClass("div", "SensSynonymes", d, n)
    /\ FirstChild(d, n) # Nil
    /\ \/ class(d, FirstChild(d, n)) = "DivisionDefinition"
       \/ NodeAt(d, FirstChild(d, n)).tag = "b"

matchRelationNode(d, n) ==
    /\ TagClass("div", "SensSynonymes", d, n)
    /\ FirstChild(d, n) # Nil
    /\ \/ TagClass("p", "DivisionDefinition", d, FirstChild(d, n))
       \/ NodeAt(d, FirstChild(d, n)).tag = "b"

RubriqueDefinitionNode(d, n)   == TagClass("p", "RubriqueDefinition", d, n)
IndicateurDefinitionNode(d, n) == TagClass("span", "indicateurDefinition", d, n)
IndicateurLocutionNode(d, n)   == TagClass("span", "IndicateurLocution", d, n)
AdresseLocutionNode(d, n)      == TagClass("h2", "AdresseLocution", d, n)
DifficulteTypeNode(d, n)       == TagClass("p", "TypeDifficulte", d, n)

-----------------------------------------------------------------------------
(* Package definition: parsers (definition/parse) *)

\* The siblings of m from m on, in order.
RECURSIVE SiblingsFrom(_, _)
SiblingsFrom(d, m) == IF m = Nil THEN << >> ELSE <<m>> \o SiblingsFrom(d, NextSibling(d, m))

shouldGetSpace(str) == str # << >> /\ str[Len(str)] # " "

RECURSIVE DefinitionTexte(_, _, _)
DefinitionTexte(d, ms, texte) ==
    IF ms = << >> THEN texte
    ELSE IF RubriqueDefinitionNode(d, Head(ms)) \/ IndicateurDefinitionNode(d, Head(ms))
    THEN DefinitionTexte(d, Tail(ms), texte)
    ELSE DefinitionTexte(d, Tail(ms),
                         texte \o (IF shouldGetSpace(texte) THEN <<" ">> ELSE << >>)
                               \o Text(d, Head(ms)))

\* The text of the last node of ms that M matches, "" when there is none.
LastText(d, ms, M(_, _)) ==
    LET hits == SelectSeq(ms, LAMBDA m : M(d, m)) IN
    IF hits = << >> THEN << >> ELSE Text(d, hits[Len(hits)])

parseDefinitionNode(d, n) ==
    LET ms == SiblingsFrom(d, FirstChild(d, n)) IN
    [Texte    |-> DefinitionTexte(d, ms, << >>),
     RedBig   |-> LastText(d, ms, RubriqueDefinitionNode),
     RedSmall |-> LastText(d, ms, IndicateurDefinitionNode)]

\* strings.ReplaceAll(s, <<a, b>>, <<c>>) for a two-character pattern.
RECURSIVE ReplaceAll2(_, _, _, _)
ReplaceAll2(s, a, b, c) ==
    IF Len(s) < 2 THEN s
    ELSE IF s[1] = a /\ s[2] = b THEN <<c>> \o ReplaceAll2(SubSeq(s, 3, Len(s)), a, b, c)
    ELSE <<s[1]>> \o ReplaceAll2(Tail(s), a, b, c)

\* strings.Trim(s, " ") coincides with trimming spaces at both ends.
\* The rules are kept in a map, whose iteration order is unspecified:
\* order is the rule the range loop visits first.
expressionCleanupTexte(texte, order) ==
    LET r1(s) == ReplaceAll2(s, "'", " ", "'")
        r2(s) == ReplaceAll2(s, " ", ".", ".") IN
    TrimSpace(IF order = 1 THEN r2(r1(texte)) ELSE r1(r2(texte)))

HasPrefix(s, pre) == Len(pre) <= Len(s) /\ SubSeq(s, 1, Len(pre)) = pre

ExpressionTextes(d, nodes) ==
    [i \in 1..Len(nodes) |->
         Text(d, nodes[i]) \o
         (IF NextSibling(d, nodes[i]) # Nil
          THEN <<" ">> \o Text(d, NextSibling(d, nodes[i])) ELSE << >>)]

parseExpressionNode(d, n, order) ==
    LET rbn      == Find(d, n, RubriqueDefinitionNode)
        nodes    == FindAll(d, n, AdresseLocutionNode)
        withInd  == SelectSeq(nodes, LAMBDA m : Find(d, m, IndicateurLocutionNode) # Nil)
        redSmall == IF withInd = << >> THEN << >>
                    ELSE Text(d, Find(d, withInd[Len(withInd)], IndicateurLocutionNode))
        joined   == Join(ExpressionTextes(d, nodes), <<" ">>)
        texte    == IF HasPrefix(joined, redSmall)
                    THEN SubSeq(joined, Len(redSmall) + 1, Len(joined)) ELSE joined IN
    [Texte    |-> expressionCleanupTexte(texte, order),
     RedBig   |-> IF rbn = Nil THEN << >> ELSE Text(d, rbn),
     RedSmall |-> redSmall]

HomonymeTexteNode(d, n) ==
    IF FindByClass(d, n, "Renvois") # Nil THEN FindByClass(d, n, "Renvois")
    ELSE FindByTag(d, n, "b")

parseHomonymeNodeFails(d, n) == HomonymeTexteNode(d, n) = Nil

parseHomonymeNode(d, n) ==
    [Texte |-> Text(d, HomonymeTexteNode(d, n)),
     Type  |-> IF FindByClass(d, n, "CatGramHomonyme") = Nil THEN << >>
               ELSE Text(d, FindByClass(d, n, "CatGramHomonyme"))]

\* strings.Split(s, " - "): the separator is the single atom "-" between spaces.
RECURSIVE Split(_, _)
Split(s, cur) ==
    IF s = << >> THEN <<cur>>
    ELSE IF Len(s) >= 3 /\ s[1] = " " /\ s[2] = "-" /\ s[3] = " "
    THEN <<cur>> \o Split(SubSeq(s, 4, Len(s)), << >>)
    ELSE Split(Tail(s), Append(cur, s[1]))

\* The label node, the first list node and the second list node of a relation.
RelationLabel(d, n)  == NextSibling(d, FirstChild(d, n))
RelationList1(d, n)  == NextSibling(d, RelationLabel(d, n))
RelationIsSyn(d, n)  == HasPrefixAtom(Text(d, RelationLabel(d, n)), "Synonyme")
RelationList2(d, n)  == NextSibling(d, NextSibling(d, RelationList1(d, n)))

parseRelationNodeFails(d, n) ==
    FirstChild(d, n) = Nil \/ RelationLabel(d, n) = Nil

\* scrape.Text(m) and m.NextSibling dereference m without a nil check.
parseRelationNodePanics(d, n) ==
    /\ ~ parseRelationNodeFails(d, n)
    /\ \/ RelationList1(d, n) = Nil
       \/ /\ RelationIsSyn(d, n)
          /\ NextSibling(d, RelationList1(d, n)) # Nil
          /\ RelationList2(d, n) = Nil

parseRelationNode(d, n) ==
    LET first  == Split(Text(d, RelationList1(d, n)), << >>)
        second == IF RelationIsSyn(d, n) /\ NextSibling(d, RelationList1(d, n)) # Nil
                  THEN Split(Text(d, RelationList2(d, n)), << >>) ELSE << >> IN
    [Texte      |-> Text(d, FirstChild(d, n)),
     Synonymes  |-> IF RelationIsSyn(d, n) THEN first ELSE << >>,
     Contraires |-> IF RelationIsSyn(d, n) THEN second ELSE first]

parseDifficulteNodeFails(d, n) == Find(d, n, DifficulteTypeNode) = Nil

parseDifficulteNode(d, n) ==
    LET typeNode == Find(d, n, DifficulteTypeNode) IN
    [Type  |-> Text(d, typeNode),
     Texte |-> ConcatTexts(d, SiblingsFrom(d, NextSibling(d, typeNode)))]

getNodeID(d, n) ==
    IF AttrId(d, n) = << >> THEN [ok |-> FALSE, v |-> -1] ELSE Atoi(AttrId(d, n))

parseCitationNodeFails(d, n) ==
    ~ getNodeID(d, n).ok \/ Find(d, n, LAMBDA dd, q : TagClass("span", "TexteCitation", dd, q)) = Nil

OptText(d, n, c) ==
    LET m == Find(d, n, LAMBDA dd, q : TagClass("span", c, dd, q)) IN
    IF m = Nil THEN << >> ELSE Text(d, m)

parseCitationNode(d, n) ==
    [ID         |-> getNodeID(d, n).v,
     Auteur     |-> OptText(d, n, "AuteurCitation"),
     InfoAuteur |-> OptText(d, n, "InfoAuteurCitation"),
     Texte      |-> OptText(d, n, "TexteCitation"),
     Info       |-> OptText(d, n, "InfoCitation")]

-----------------------------------------------------------------------------
(* Pages of the French dictionary *)

P(cl, words) == Elem("p", cl, <<TextNode(words)>>)

DefHeaderSet ==
    {<<Audio(GoodSrc), T("vert"), P("CatgramDefinition", <<"adjectif">>)>>,
     <<Audio(GoodSrc), T("vert"), Audio(GoodSrc), T("verte")>>,
     <<Audio(GoodSrc), T("vert,"), Audio(GoodSrc), T("verte")>>,
     <<Audio(<< >>), T("vert")>>,
     <<Audio(<<"/", "x">>), T("vert")>>,
     <<Audio(GoodSrc)>>,
     <<T("vert")>>}

GoodDefHeader == <<Audio(GoodSrc), T("vert"), P("CatgramDefinition", <<"adjectif">>)>>

DefinitionLiSet ==
    {Elem("li", "DivisionDefinition",
          <<P("RubriqueDefinition", <<"BOTANIQUE">>), Span("indicateurDefinition", "Vieux"),
            T("couleur"), Span("ExempleDefinition", "un pré vert")>>),
     Elem("li", "DivisionDefinition", <<T("couleur ")>>),
     Elem("li", "DivisionDefinition", << >>)}

LocutionSet ==
    {Elem("li", "Locution",
          <<Elem("h2", "AdresseLocution", <<Span("IndicateurLocution", "Familier"), T("au vert")>>),
            Span("TexteLocution", "à la campagne")>>),
     Elem("li", "Locution",
          <<P("RubriqueDefinition", <<"SPORT">>),
            Elem("h2", "AdresseLocution", <<TextNode(<<"l", "'", " ", "vert", " ", ".">>)>>)>>),
     Elem("li", "Locution",
          <<Elem("h2", "AdresseLocution", <<TextNode(<<"vert", "'", " ", ".", " ", "'", " ", " ", ".">>)>>)>>),
     Elem("li", "Locution", << >>)}

RelationSet ==
    {Elem("div", "SensSynonymes",
          <<P("DivisionDefinition", <<"couleur">>), P("", <<"Synonyme", "s">>),
            P("", <<"cru", " ", "-", " ", "vif">>), P("", <<"Contraire", "s">>),
            P("", <<"sec">>)>>),
     Elem("div", "SensSynonymes",
          <<Elem("b", "", <<T("couleur")>>), P("", <<"Contraire", "s">>), P("", <<"sec">>)>>),
     Elem("div", "SensSynonymes",
          <<P("DivisionDefinition", <<"couleur">>), P("", <<"Synonyme", "s">>), P("", <<"cru">>)>>),
     Elem("div", "SensSynonymes", <<P("DivisionDefinition", <<"couleur">>)>>),
     Elem("div", "SensSynonymes",
          <<P("DivisionDefinition", <<"couleur">>), P("", <<"Synonyme", "s">>)>>),
     Elem("div", "SensSynonymes",
          <<P("DivisionDefinition", <<"couleur">>), P("", <<"Synonyme", "s">>),
            P("", <<"cru">>), P("", <<"Contraire", "s">>)>>),
     Elem("div", "SensSynonymes", << >>)}

\* Relation nodes that differ in their first child only.
FirstChildSet ==
    {P("DivisionDefinition", <<"couleur">>), Elem("b", "", <<T("couleur")>>),
     Elem("div", "DivisionDefinition", <<T("couleur")>>), T("couleur")}

RelationWith(first) ==
    Elem("div", "SensSynonymes", <<first, P("", <<"Synonyme", "s">>), P("", <<"cru">>)>>)

HomonymeSet ==
    {Elem("li", "Homonyme", <<Span("Renvois", "ver"), Span("CatGramHomonyme", "nom")>>),
     Elem("li", "Homonyme", <<Elem("b", "", <<T("verre")>>)>>),
     Elem("li", "Homonyme", << >>)}

DifficulteSet ==
    {Elem("li", "Difficulte",
          <<P("TypeDifficulte", <<"ORTHOGRAPHE">>), P("DefinitionDifficulte", <<"invariable">>)>>),
     Elem("li", "Difficulte", <<P("DefinitionDifficulte", <<"invariable">>)>>)}

CitationSet ==
    {WithId(Elem("li", "Citation",
                 <<Span("AuteurCitation", "Hugo"), Span("InfoAuteurCitation", "1802"),
                   Span("TexteCitation", "tout est vert"), Span("InfoCitation", "Odes")>>),
            <<"4", "2">>),
     WithId(Elem("li", "Citation", <<Span("TexteCitation", "tout est vert")>>), <<"4", "3">>),
     WithId(Elem("li", "Citation", <<Span("AuteurCitation", "Hugo")>>), <<"4", "4">>),
     WithId(Elem("li", "Citation", <<Span("TexteCitation", "tout est vert")>>), <<"c", "4">>),
     Elem("li", "Citation", <<Span("TexteCitation", "tout est vert")>>)}

SectionSet ==
    DefinitionLiSet \cup LocutionSet \cup RelationSet \cup HomonymeSet
        \cup DifficulteSet \cup CitationSet

MaxSections == 1

DefinitionPages ==
    {Page(<<GoodCanonical>> \o h) : h \in DefHeaderSet}
        \cup {Page(<<GoodCanonical>> \o GoodDefHeader \o ss) : ss \in SeqsUpTo(SectionSet, MaxSections)}
        \cup {Page(c \o GoodDefHeader) : c \in CanonicalSet}
        \cup {Page(<<GoodCanonical>> \o GoodDefHeader \o c) : c \in CarouselSet}
        \cup {Page(<<GoodCanonical>> \o GoodDefHeader \o <<RelationWith(a), RelationWith(b)>>) :
                  a, b \in FirstChildSet}
        \cup NotFoundPages

-----------------------------------------------------------------------------
(* Package definition: newResultFromRoot and its locators *)

findHeaderTexteFails(d) == FindAll(d, << >>, HeaderTexteNode) = << >>

RECURSIVE HeaderTexteFrom(_, _, _, _)
HeaderTexteFrom(d, nodes, i, out) ==
    IF i > Len(nodes) THEN out
    ELSE HeaderTexteFrom(d, nodes, i + 1,
             out \o (IF i > 1 /\ ~ HasSuffixAtom(out, ",") THEN <<",", " ">> ELSE << >>)
                 \o Text(d, nodes[i]))

findHeaderTexte(d) == HeaderTexteFrom(d, FindAll(d, << >>, HeaderTexteNode), 1, << >>)

findHeaderAudioFails(d) == Find(d, << >>, HeaderAudioNode) = Nil

findHeaderType(d) ==
    LET n == Find(d, << >>, HeaderTypeNode) IN
    IF n = Nil THEN << >> ELSE NodeAt(d, n).data

findHeaderFails(d) == findHeaderTexteFails(d) \/ findHeaderAudioFails(d)

findHeaderPanics(d) ==
    ~ findHeaderFails(d) /\ GetAudioURLPanics(d, Find(d, << >>, HeaderAudioNode))

findHeader(d) ==
    [Texte |-> findHeaderTexte(d),
     Audio |-> GetAudioURL(d, Find(d, << >>, HeaderAudioNode)),
     Type  |-> findHeaderType(d)]

Map(nodes, F(_)) == [i \in 1..Len(nodes) |-> F(nodes[i])]

AnyOf(nodes, B(_)) == \E i \in 1..Len(nodes) : B(nodes[i])

\* Whether a loop over nodes ends at node i by returning an error, and
\* whether it ends by a run-time failure before any error is returned.
EndsAt(nodes, i, Fails(_), Panics(_)) ==
    /\ i \in 1..Len(nodes)
    /\ \A j \in 1..(i - 1) : ~ Fails(nodes[j]) /\ ~ Panics(nodes[j])

LoopFails(nodes, Fails(_), Panics(_)) ==
    \E i \in 1..Len(nodes) : EndsAt(nodes, i, Fails, Panics) /\ Fails(nodes[i])

LoopPanics(nodes, Fails(_), Panics(_)) ==
    \E i \in 1..Len(nodes) : EndsAt(nodes, i, Fails, Panics) /\ ~ Fails(nodes[i]) /\ Panics(nodes[i])

findDefinitions(d) ==
    Map(FindAll(d, << >>, matchDefinitionNode), LAMBDA n : parseDefinitionNode(d, n))

findExpressions(d, order) ==
    Map(FindAll(d, << >>, matchExpressionNode), LAMBDA n : parseExpressionNode(d, n, order))

RelationNodes(d) == FindAll(d, << >>, matchRelationNode)

findRelationsFails(d) ==
    LoopFails(RelationNodes(d), LAMBDA n : parseRelationNodeFails(d, n),
              LAMBDA n : parseRelationNodePanics(d, n))

findRelationsPanics(d) ==
    LoopPanics(RelationNodes(d), LAMBDA n : parseRelationNodeFails(d, n),
               LAMBDA n : parseRelationNodePanics(d, n))

findRelations(d) == Map(RelationNodes(d), LAMBDA n : parseRelationNode(d, n))

findHomonymesFails(d) ==
    AnyOf(FindAll(d, << >>, matchHomonymeNode), LAMBDA n : parseHomonymeNodeFails(d, n))

findHomonymes(d) ==
    Map(FindAll(d, << >>, matchHomonymeNode), LAMBDA n : parseHomonymeNode(d, n))

findDifficultesFails(d) ==
    AnyOf(FindAll(d, << >>, matchDifficulteNode), LAMBDA n : parseDifficulteNodeFails(d, n))

findDifficultes(d) ==
    Map(FindAll(d, << >>, matchDifficulteNode), LAMBDA n : parseDifficulteNode(d, n))

findCitationsFails(d) ==
    AnyOf(FindAll(d, << >>, matchCitationNode), LAMBDA n : parseCitationNodeFails(d, n))

findCitations(d) ==
    Map(FindAll(d, << >>, matchCitationNode), LAMBDA n : parseCitationNode(d, n))

\* The locators of newResultFromRoot in the order they are called, each with
\* whether it returns an error and whether it fails at run time.
Locators(d) ==
    <<[name |-> "GetPageID",       fails |-> ~ GetPageID(d).ok,        panics |-> FALSE],
      [name |-> "findHeader",      fails |-> findHeaderFails(d),       panics |-> findHeaderPanics(d)],
      [name |-> "findDefinitions", fails |-> FALSE,                    panics |-> FALSE],
      [name |-> "findExpressions", fails |-> FALSE,                    panics |-> FALSE],
      [name |-> "findRelations",   fails |-> findRelationsFails(d),    panics |-> findRelationsPanics(d)],
      [name |-> "findHomonymes",   fails |-> findHomonymesFails(d),    panics |-> FALSE],
      [name |-> "findDifficultes", fails |-> findDifficultesFails(d),  panics |-> FALSE],
      [name |-> "findCitations",   fails |-> findCitationsFails(d),    panics |-> FALSE],
      [name |-> "GetSimilarWords", fails |-> GetSimilarWords(d).st = "err",
                                   panics |-> GetSimilarWords(d).st = "panic"]>>

\* The position of the locator newResultFromRoot stops at, 0 when none stops it.
StopsAt(d) ==
    LET L == Locators(d)
        S == {i \in 1..Len(L) : L[i].fails \/ L[i].panics} IN
    IF S = {} THEN 0 ELSE CHOOSE i \in S : \A j \in S : i <= j

definitionResult(d, order) ==
    [PageID      |-> GetPageID(d).v,
     Header      |-> findHeader(d),
     Definitions |-> findDefinitions(d),
     Expressions |-> findExpressions(d, order),
     Relations   |-> findRelations(d),
     Homonymes   |-> findHomonymes(d),
     Difficultes |-> findDifficultes(d),
     Citations   |-> findCitations(d),
     SeeAlso     |-> GetSimilarWords(d).v]

-----------------------------------------------------------------------------
(* Package traduction: NewFromFileOrURL, newResultFromRoot, scrapeWords *)

vars == <<pkg, in, pc, doc, ErrWordNotFound, result, err, ran,
          pageID, phase, bigWords, smallWords, wi, ri, calls, code, peer>>

StackLimit == 6   \* activations of getWordCode after which the stack is exhausted

NilErr == [function |-> "nil", arg |-> "", message |-> << >>]

NewError(function, arg, message) == [function |-> function, arg |-> arg, message |-> message]

Packages == {"traduction", "definition"}

\* Result{} of package traduction
ZeroResult == [PageID |-> 0, Words |-> << >>, SeeAlso |-> << >>]

ZeroHeader == [Texte |-> << >>, Audio |-> << >>, Type |-> << >>]

\* Result{} of package definition
ZeroDefinitionResult ==
    [PageID |-> 0, Header |-> ZeroHeader, Definitions |-> << >>, Expressions |-> << >>,
     Relations |-> << >>, Homonymes |-> << >>, Difficultes |-> << >>, Citations |-> << >>,
     SeeAlso |-> << >>]

Zero(p) == IF p = "traduction" THEN ZeroResult ELSE ZeroDefinitionResult

NoDoc == TextNode(<< >>)

\* What the caller passes and what the file system and the network answer:
\* FileExists(in), isURL(in), whether HTMLRoot(in) succeeds, and the tree.
Input(name, file, url, fetch, page) ==
    [name |-> name, file |-> file, url |-> url, fetch |-> fetch, page |-> page]

PagesOf(p) == IF p = "traduction" THEN TraductionPages ELSE DefinitionPages

Inputs(pk) ==
    {Input("f1", TRUE, FALSE, TRUE, p) : p \in PagesOf(pk)}
        \cup {Input("u1", FALSE, TRUE, TRUE, p) : p \in CanonicalPages}
        \cup {Input("u2", FALSE, TRUE, TRUE, p) : p \in NotFoundPages}
        \cup {Input("bad", FALSE, FALSE, TRUE, NoDoc),
              Input("u1", FALSE, TRUE, FALSE, NoDoc),
              Input("f1", TRUE, FALSE, FALSE, NoDoc)}

Locals0 ==
    /\ pageID = 0 /\ phase = "none" /\ bigWords = << >> /\ smallWords = << >>
    /\ wi = 0 /\ ri = 0 /\ calls = 0 /\ code = 0

\* Everything an invocation of NewFromFileOrURL holds of its own.
Frame ==
    [pkg |-> pkg, in |-> in, pc |-> pc, doc |-> doc, result |-> result, err |-> err,
     ran |-> ran, pageID |-> pageID, phase |-> phase, bigWords |-> bigWords,
     smallWords |-> smallWords, wi |-> wi, ri |-> ri, calls |-> calls, code |-> code]

Init ==
    /\ pkg = "traduction" /\ in = Input("", FALSE, FALSE, FALSE, NoDoc)
    /\ pc = "idle" /\ doc = NoDoc
    /\ ErrWordNotFound = [p \in Packages |-> NilErr]
    /\ result = ZeroResult /\ err = NilErr /\ ran = {}
    /\ Locals0
    /\ peer = Frame

UnchangedLocals == UNCHANGED <<pageID, phase, bigWords, smallWords, wi, ri, calls, code, peer>>

\* return r, e
Return(r, e) == result' = r /\ err' = e /\ pc' = "done"

\* A failure that returned the Words extracted so far with the error.
FailKeepingWords(step, cause) ==
    Return([PageID |-> pageID, Words |-> bigWords \o smallWords, SeeAlso |-> << >>],
           NewError("NewFromFileOrURL", in.name, <<step, cause>>))

\* return Result{}, NewError("NewFromFileOrURL", in, step + err.Error())
Fail(step, cause) ==
    Return(Zero(pkg), NewError("NewFromFileOrURL", in.name, <<step, cause>>))

\* A caller invokes NewFromFileOrURL(in) of one of the packages.
CallWith(I(_)) ==
    /\ pc = "idle"
    /\ \E pk \in Packages : \E i \in I(pk) : pkg' = pk /\ in' = i
    /\ pc' = "called"
    /\ UNCHANGED <<doc, ErrWordNotFound, result, err, ran>>
    /\ UnchangedLocals

Call == CallWith(Inputs)

CheckInput ==
    /\ pc = "called"
    /\ IF ~ in.file /\ ~ in.url
       THEN Fail("Bad URL", "isURL")
       ELSE pc' = "fetch" /\ UNCHANGED <<result, err>>
    /\ UNCHANGED <<pkg, in, doc, ErrWordNotFound, ran>>
    /\ UnchangedLocals

HTMLRoot ==
    /\ pc = "fetch"
    /\ IF ~ in.fetch
       THEN Fail("Download step", "HTMLRoot") /\ UNCHANGED doc
       ELSE doc' = in.page /\ pc' = "loaded" /\ UNCHANGED <<result, err>>
    /\ UNCHANGED <<pkg, in, ErrWordNotFound, ran>>
    /\ UnchangedLocals

\* if laroussefr.IsWordNotFoundPage(doc) { ErrWordNotFound = NewError(...)
SetErrWordNotFound ==
    /\ pc = "loaded"
    /\ IsWordNotFoundPage(doc)
    /\ ErrWordNotFound' =
           [ErrWordNotFound EXCEPT ![pkg] = NewError("NewFromFileOrURL", in.name, <<"ErrWordNotFound">>)]
    /\ pc' = "notfound"
    /\ UNCHANGED <<pkg, in, doc, result, err, ran>>
    /\ UnchangedLocals

\* traduction: seeAlso := GetSearchSuggestions(doc); return Result{-1, nil, seeAlso}, ErrWordNotFound
\* definition: var res Result; res.SeeAlso = GetSearchSuggestions(doc); return res, ErrWordNotFound
NotFoundResult ==
    IF pkg = "traduction"
    THEN [PageID |-> -1, Words |-> << >>, SeeAlso |-> GetSearchSuggestions(doc)]
    ELSE [ZeroDefinitionResult EXCEPT !.SeeAlso = GetSearchSuggestions(doc)]

ReturnNotFound ==
    /\ pc = "notfound"
    /\ ran' = ran \cup {"GetSearchSuggestions"}
    /\ IF GetSearchSuggestionsPanics(doc)
       THEN pc' = "panic" /\ UNCHANGED <<result, err>>
       ELSE Return(NotFoundResult, ErrWordNotFound[pkg])
    /\ UNCHANGED <<pkg, in, doc, ErrWordNotFound>>
    /\ UnchangedLocals

\* A newResultFromRoot that goes on to the words when the page has no page ID.
newResultFromRootUnchecked ==
    /\ pc = "loaded" /\ pkg = "traduction"
    /\ ~ IsWordNotFoundPage(doc)
    /\ ran' = ran \cup {"GetPageID"}
    /\ pageID' = GetPageID(doc).v /\ pc' = "bigWords"
    /\ UNCHANGED <<pkg, in, doc, ErrWordNotFound, result, err,
                   phase, bigWords, smallWords, wi, ri, calls, code, peer>>

\* newResultFromRoot: pageID, err := laroussefr.GetPageID(doc)
newResultFromRoot ==
    /\ pc = "loaded" /\ pkg = "traduction"
    /\ ~ IsWordNotFoundPage(doc)
    /\ ran' = ran \cup {"GetPageID"}
    /\ IF ~ GetPageID(doc).ok
       THEN Fail("Scrape step", "GetPageID") /\ UNCHANGED pageID
       ELSE pageID' = GetPageID(doc).v /\ pc' = "bigWords" /\ UNCHANGED <<result, err>>
    /\ UNCHANGED <<pkg, in, doc, ErrWordNotFound, phase, bigWords, smallWords, wi, ri, calls, code, peer>>

\* The ZoneEntree nodes of the list being scraped.
zoneEntreeNodes ==
    IF phase = "big" THEN getBigWordZoneEntreeNodes(doc) ELSE getSmallWordZoneEntreeNodes(doc)

\* Start the loop over the nodes of list ph, or move on when it has none.
StartLoop(ph, nodes, after) ==
    IF nodes = << >>
    THEN pc' = after /\ UNCHANGED <<phase, wi, ri, calls>>
    ELSE pc' = "code" /\ phase' = ph /\ wi' = 0 /\ ri' = 0 /\ calls' = 1

scrapeBigWords ==
    /\ pc = "bigWords"
    /\ ran' = ran \cup {"scrapeBigWords"}
    /\ bigWords' = << >>
    /\ IF ~ hasBigWords(doc, << >>)
       THEN pc' = "smallWords" /\ UNCHANGED <<result, err, phase, wi, ri, calls>>
       ELSE IF getZoneEntreeNodesFails(doc)
       THEN Fail("Scrape step", "scrapeBigWords") /\ UNCHANGED <<phase, wi, ri, calls>>
       ELSE StartLoop("big", getBigWordZoneEntreeNodes(doc), "smallWords")
                /\ UNCHANGED <<result, err>>
    /\ UNCHANGED <<pkg, in, doc, ErrWordNotFound, pageID, smallWords, code, peer>>

scrapeSmallWords ==
    /\ pc = "smallWords"
    /\ ran' = ran \cup {"scrapeSmallWords"}
    /\ smallWords' = << >>
    /\ IF getZoneEntreeNodesFails(doc)
       THEN Fail("Scrape step", "scrapeSmallWords") /\ UNCHANGED <<phase, wi, ri, calls>>
       ELSE StartLoop("small", getSmallWordZoneEntreeNodes(doc), "words")
                /\ UNCHANGED <<result, err>>
    /\ UNCHANGED <<pkg, in, doc, ErrWordNotFound, pageID, bigWords, code, peer>>

\* One activation of getWordCode: on an error of getCodeFunc it calls itself
\* with i-1 and the same node; otherwise every activation returns the code.
getWordCode ==
    /\ pc = "code"
    /\ LET r == getCodeFunc(ri, doc, zoneEntreeNodes[wi + 1]) IN
       IF r.ok
       THEN code' = r.v /\ calls' = 0 /\ pc' = "entry" /\ UNCHANGED ri
       ELSE IF calls >= StackLimit
       THEN pc' = "overflow" /\ UNCHANGED <<code, ri, calls>>
       ELSE ri' = ri - 1 /\ calls' = calls + 1 /\ UNCHANGED <<pc, code>>
    /\ UNCHANGED <<pkg, in, doc, ErrWordNotFound, result, err, ran,
                   pageID, phase, bigWords, smallWords, wi, peer>>

\* The rest of the loop body of scrapeBigWords / scrapeSmallWords for node wi.
scrapeEntryPanics(n) ==
    \/ ZoneEntreePanics(doc, n)
    \/ IF phase = "big"
       THEN scrapeBlackNodesPanics(doc, getBlackNodes(doc, NextSibling(doc, n)))
       ELSE scrapeItemsPanics(doc, ItemNodesOf(doc, NextSibling(doc, n)))

scrapeEntry ==
    /\ pc = "entry"
    /\ LET n    == zoneEntreeNodes[wi + 1]
           zt   == NextSibling(doc, n)
           last == wi + 1 = Len(zoneEntreeNodes)
           next == IF phase = "big" THEN "smallWords" ELSE "words" IN
       IF ZoneEntreeFails(doc, n)
       THEN Fail("Scrape step", "ZoneEntree")
                /\ UNCHANGED <<bigWords, smallWords, wi, ri, calls>>
       ELSE IF scrapeEntryPanics(n)
       THEN pc' = "panic" /\ UNCHANGED <<result, err, bigWords, smallWords, wi, ri, calls>>
       ELSE /\ IF phase = "big"
               THEN /\ bigWords' = Append(bigWords,
                                          [Code |-> code, Header |-> ZoneEntree(doc, n),
                                           Subheaders |-> scrapeBlackNodes(doc, getBlackNodes(doc, zt))])
                    /\ UNCHANGED smallWords
               ELSE /\ smallWords' = Append(smallWords,
                                            [Code |-> code, Header |-> ZoneEntree(doc, n),
                                             Items |-> scrapeItems(doc, ItemNodesOf(doc, zt))])
                    /\ UNCHANGED bigWords
            /\ IF last
               THEN pc' = next /\ UNCHANGED <<wi, ri, calls>>
               ELSE pc' = "code" /\ wi' = wi + 1 /\ ri' = wi + 1 /\ calls' = 1
            /\ UNCHANGED <<result, err>>
    /\ UNCHANGED <<pkg, in, doc, ErrWordNotFound, ran, pageID, phase, code, peer>>

\* scrapeWords: the Words of the page, bigWords first.
scrapeWords == bigWords \o [i \in 1..Len(smallWords) |-> toWord(smallWords[i])]

\* The end of newResultFromRoot and of NewFromFileOrURL.
ReturnResult ==
    /\ pc = "words"
    /\ ran' = ran \cup {"GetSimilarWords"}
    /\ CASE GetSimilarWords(doc).st = "panic" -> pc' = "panic" /\ UNCHANGED <<result, err>>
         [] GetSimilarWords(doc).st = "err"   -> Fail("Scrape step", "GetSimilarWords")
         [] OTHER -> Return([PageID |-> pageID, Words |-> scrapeWords,
                             SeeAlso |-> GetSimilarWords(doc).v], NilErr)
    /\ UNCHANGED <<pkg, in, doc, ErrWordNotFound>>
    /\ UnchangedLocals

\* Package definition: res, err := newResultFromRoot(doc), and the return.
definitionNewResultFromRoot ==
    /\ pc = "loaded" /\ pkg = "definition"
    /\ ~ IsWordNotFoundPage(doc)
    /\ LET k == StopsAt(doc)
           L == Locators(doc) IN
       /\ ran' = ran \cup {L[i].name : i \in 1..(IF k = 0 THEN Len(L) ELSE k)}
       /\ IF k = 0
          THEN \E order \in {1, 2} : Return(definitionResult(doc, order), NilErr)
          ELSE IF L[k].fails
          THEN Fail("Scrape step", L[k].name)
          ELSE pc' = "panic" /\ UNCHANGED <<result, err>>
    /\ UNCHANGED <<pkg, in, doc, ErrWordNotFound>>
    /\ UnchangedLocals

Next ==
    \/ Call
    \/ CheckInput
    \/ HTMLRoot
    \/ SetErrWordNotFound
    \/ ReturnNotFound
    \/ newResultFromRoot
    \/ scrapeBigWords
    \/ scrapeSmallWords
    \/ getWordCode
    \/ scrapeEntry
    \/ ReturnResult
    \/ definitionNewResultFromRoot

Spec == Init /\ [][Next]_vars

-----------------------------------------------------------------------------
(* Two invocations running concurrently, e.g. from two goroutines.  Each    *)
(* has its own locals; the package variables ErrWordNotFound are the same   *)
(* for both.  The scheduler may pass from one invocation to the other       *)
(* between any two steps.                                                   *)

ConcInputs(pk) ==
    {Input("u1", FALSE, TRUE, TRUE,
           Page(<<Corrector(<<Suggestion(<<"/", "d", "/", "vert", "/", "8", "1">>)>>)>>)),
     Input("u2", FALSE, TRUE, TRUE,
           Page(<<Corrector(<<Suggestion(<<"/", "d", "/", "verre", "/", "8", "2">>)>>)>>)),
     Input("f1", TRUE, FALSE, TRUE,
           IF pk = "traduction"
           THEN Page(<<GoodCanonical, PlainEntry("id", "big"), PlainEntry("noid", "small")>>)
           ELSE Page(<<GoodCanonical>> \o GoodDefHeader))}

CallConc == CallWith(ConcInputs)

Switch ==
    /\ peer' = Frame
    /\ pkg' = peer.pkg /\ in' = peer.in /\ pc' = peer.pc /\ doc' = peer.doc
    /\ result' = peer.result /\ err' = peer.err /\ ran' = peer.ran
    /\ pageID' = peer.pageID /\ phase' = peer.phase
    /\ bigWords' = peer.bigWords /\ smallWords' = peer.smallWords
    /\ wi' = peer.wi /\ ri' = peer.ri /\ calls' = peer.calls /\ code' = peer.code
    /\ UNCHANGED ErrWordNotFound

NextConc ==
    \/ CallConc
    \/ Switch
    \/ CheckInput
    \/ HTMLRoot
    \/ SetErrWordNotFound
    \/ ReturnNotFound
    \/ newResultFromRoot
    \/ scrapeBigWords
    \/ scrapeSmallWords
    \/ getWordCode
    \/ scrapeEntry
    \/ ReturnResult
    \/ definitionNewResultFromRoot

SpecConc == Init /\ [][NextConc]_vars

-----------------------------------------------------------------------------
(* Calls of the comparators.  A caller (the tests of the packages) holds    *)
(* two records and calls equals of the first on the second.  The records    *)
(* are built by hand, as the tests build them, so they may differ in any    *)
(* field and in the length of any list.                                     *)

URL(name, id) == <<"https:", "/", "/", "larousse.fr", "/", name, "/">> \o id

\* Two spellings of one page, as two scrapes show them, another page, and a
\* link that ends in no page ID.
SeeAlsoURLs ==
    {URL("Airbag<sup>R</sup>", <<"8", "2">>), URL("AirbagAirbag", <<"8", "2">>),
     URL("aire", <<"1", "9">>), <<"https:", "/", "/", "larousse.fr">>}

MaxSeeAlso == 2

SeeAlsoSet == SeqsUpTo(SeeAlsoURLs, MaxSeeAlso)

PhraseScalars ==
    <<"Text1", "Text2", "Audio1", "Audio2", "RedBrac", "RedCaps", "RedMeta">>

\* ZeroPhrase with the scalar fields of the set F changed.
PhraseWith(F, blue, subs) ==
    [f \in DOMAIN ZeroPhrase |->
        CASE f = "IsBlue"     -> blue
          [] f = "Subphrases" -> subs
          [] OTHER            -> IF f \in F THEN <<f>> ELSE << >>]

SubPhrase(w) == PhraseWith({w}, FALSE, << >>)

\* Phrases that differ from one another in one or two scalar fields, in the
\* flag, in the number of Subphrases or in one Subphrase.
PhraseSet ==
    {PhraseWith(F, FALSE, << >>) :
         F \in {G \in SUBSET Range(PhraseScalars) : Cardinality(G) <= 2}}
        \cup {PhraseWith(F, TRUE, << >>) : F \in {{}, {"RedMeta"}}}
        \cup {PhraseWith({}, FALSE, s) :
                  s \in {<<SubPhrase("Text1")>>, <<SubPhrase("RedBrac")>>,
                         <<SubPhrase("Text1"), SubPhrase("Text2")>>}}

MeaningWith(w) == [ZeroMeaning EXCEPT !.Text = <<w>>]

ItemValues ==
    {[Meanings |-> m, Phrases |-> p] :
         m \in SeqsUpTo({MeaningWith("a"), MeaningWith("b")}, 2),
         p \in {<< >>, <<SubPhrase("Text1")>>, <<SubPhrase("Text2")>>,
                <<SubPhrase("Text1"), SubPhrase("Text2")>>}}

Item1 == [Meanings |-> <<MeaningWith("a")>>, Phrases |-> << >>]

Item2 == [Meanings |-> << >>, Phrases |-> <<SubPhrase("Text1")>>]

SubheaderValues ==
    {[Title |-> t, Items |-> i] :
         t \in {<< >>, <<"title">>}, i \in SeqsUpTo({Item1, Item2}, 2)}

Subheader1 == [Title |-> << >>, Items |-> <<Item1>>]

Subheader2 == [Title |-> <<"title">>, Items |-> <<Item1, Item2>>]

TraductionHeader(w) ==
    [Text |-> <<w>>, TextAlt |-> << >>, Phonetic |-> << >>, Audio |-> << >>, Type |-> << >>]

WordValues ==
    {[Code |-> c, Header |-> TraductionHeader(h), Subheaders |-> s] :
         c \in {1, 2}, h \in {"court", "courte"},
         s \in SeqsUpTo({Subheader1, Subheader2}, 2)}

Word1 == [Code |-> 1, Header |-> TraductionHeader("court"), Subheaders |-> <<Subheader1>>]

Word2 == [Code |-> 2, Header |-> TraductionHeader("courte"), Subheaders |-> <<Subheader2>>]

ResultValues ==
    {[PageID |-> p, Words |-> w, SeeAlso |-> s] :
         p \in {1}, w \in {<<Word1>>, <<Word1, Word2>>}, s \in SeeAlsoSet}

RelationValues ==
    {[Texte |-> <<t>>, Synonymes |-> s, Contraires |-> c] :
         t \in {"grand", "petit"},
         s \in SeqsUpTo({<<"haut">>, <<"long">>}, 2),
         c \in {<< >>, <<<<"bas">>>>, <<<<"bas">>, <<"nain">>>>}}

Relation1 == [Texte |-> <<"grand">>, Synonymes |-> <<<<"haut">>>>, Contraires |-> << >>]

Relation2 == [Texte |-> <<"petit">>, Synonymes |-> << >>, Contraires |-> <<<<"grand">>>>]

Definition1 == [Texte |-> <<"sens">>, RedBig |-> << >>, RedSmall |-> << >>]

DefinitionResultValues ==
    {[ZeroDefinitionResult EXCEPT !.PageID = 1, !.Definitions = d, !.Relations = r,
                                  !.SeeAlso = s] :
         d \in {<<Definition1>>},
         r \in {<<Relation1>>, <<Relation1, Relation2>>},
         s \in SeeAlsoSet}

\* r.equals(q) of the type named by function.
Comparison(function, r, q) == [function |-> function, r |-> r, q |-> q]

Pairs(function, S) == {Comparison(function, r, q) : r \in S, q \in S}

Comparisons(pk) ==
    IF pk = "traduction"
    THEN Pairs("Result.equals", ResultValues) \cup Pairs("Word.equals", WordValues)
             \cup Pairs("Subheader.equals", SubheaderValues)
             \cup Pairs("Item.equals", ItemValues)
             \cup Pairs("Phrase.equals", PhraseSet)
    ELSE Pairs("Result.equals", DefinitionResultValues)
             \cup Pairs("Relation.equals", RelationValues)

InitEquals ==
    /\ \E pk \in Packages : \E c \in Comparisons(pk) : pkg = pk /\ in = c
    /\ pc = "called" /\ doc = NoDoc
    /\ ErrWordNotFound = [p \in Packages |-> NilErr]
    /\ result = Equal /\ err = NilErr /\ ran = {}
    /\ Locals0
    /\ peer = << >>

\* The comparator returns (message, ok), or fails at run time.
Compared(panics, returned) ==
    /\ IF panics
       THEN pc' = "panic" /\ UNCHANGED result
       ELSE pc' = "done" /\ result' = returned
    /\ UNCHANGED <<pkg, in, doc, ErrWordNotFound, err, ran>>
    /\ UnchangedLocals

CallResultEquals ==
    /\ pc = "called" /\ pkg = "traduction" /\ in.function = "Result.equals"
    /\ Compared(ResultEqualsPanics(in.r, in.q), ResultEquals(in.r, in.q))

CallWordEquals ==
    /\ pc = "called" /\ in.function = "Word.equals"
    /\ Compared(WordEqualsPanics(in.r, in.q), WordEquals(in.r, in.q))

CallSubheaderEquals ==
    /\ pc = "called" /\ in.function = "Subheader.equals"
    /\ Compared(SubheaderEqualsPanics(in.r, in.q), SubheaderEquals(in.r, in.q))

CallItemEquals ==
    /\ pc = "called" /\ in.function = "Item.equals"
    /\ Compared(ItemEqualsPanics(in.r, in.q), ItemEquals(in.r, in.q))

CallPhraseEquals ==
    /\ pc = "called" /\ in.function = "Phrase.equals"
    /\ Compared(PhraseEqualsPanics(in.r, in.q), PhraseEquals(in.r, in.q))

CallRelationEquals ==
    /\ pc = "called" /\ in.function = "Relation.equals"
    /\ Compared(RelationEqualsPanics(in.r, in.q), RelationEquals(in.r, in.q))

CallDefinitionResultEquals ==
    /\ pc = "called" /\ pkg = "definition" /\ in.function = "Result.equals"
    /\ Compared(definitionResultEqualsPanics(in.r, in.q), definitionResultEquals(in.r, in.q))

NextEquals ==
    \/ CallResultEquals
    \/ CallWordEquals
    \/ CallSubheaderEquals
    \/ CallItemEquals
    \/ CallPhraseEquals
    \/ CallRelationEquals
    \/ CallDefinitionResultEquals

SpecEquals == InitEquals /\ [][NextEquals]_vars

-----------------------------------------------------------------------------
(* IsURL (laroussefr.go), with url.Parse of net/url *)

\* A string is a sequence of atoms here as everywhere; the atoms of a URL are
\* its separators ":", "/" and the names between them.  "larousse.fr" is one
\* atom, so that a string contains "larousse.fr" exactly when it has that atom.
NameAtoms ==
    {"http", "https", "ftp", "http2", "HTTP", "www.", "larousse.fr", "larousse.jp",
     "fr.wikipedia.org", "dictionnaires", "francais", "vert", "asdf"}

DigitAtoms == {"80"}

\* strings.ToLower on a scheme.
ToLower(s) == [i \in 1..Len(s) |-> IF s[i] = "HTTP" THEN "http" ELSE s[i]]

\* strings.Index: the first position of sub in s, or 0; strings.Contains.
Occurs(s, sub, i) == i + Len(sub) - 1 <= Len(s) /\ SubSeq(s, i, i + Len(sub) - 1) = sub

Index(s, sub) ==
    IF \E i \in 1..Len(s) : Occurs(s, sub, i)
    THEN CHOOSE i \in 1..Len(s) : Occurs(s, sub, i) /\ \A j \in 1..(i - 1) : ~ Occurs(s, sub, j)
    ELSE 0

Contains(s, sub) == sub = << >> \/ Index(s, sub) # 0

\* strings.Cut(s, sep).before for a one-atom separator.
Before(s, sep) == IF Index(s, <<sep>>) = 0 THEN s ELSE SubSeq(s, 1, Index(s, <<sep>>) - 1)

From(s, i) == SubSeq(s, i, Len(s))

\* getScheme: the name before the first ":", when only letters, digits, "+",
\* "-" and "." come before it and the first of them is a letter.
getScheme(rawURL) ==
    LET k == Index(rawURL, <<":">>) IN
    IF k = 1 THEN [scheme |-> << >>, rest |-> << >>, err |-> "missing protocol scheme"]
    ELSE IF /\ k > 1
            /\ rawURL[1] \in NameAtoms
            /\ \A j \in 1..(k - 1) : rawURL[j] \in NameAtoms \cup DigitAtoms
    THEN [scheme |-> SubSeq(rawURL, 1, k - 1), rest |-> From(rawURL, k + 1), err |-> ""]
    ELSE [scheme |-> << >>, rest |-> rawURL, err |-> ""]

\* Whether what follows the scheme starts with an authority.
hasAuthority(scheme, rest) ==
    /\ HasPrefix(rest, <<"/", "/">>)
    /\ scheme # << >> \/ ~ HasPrefix(rest, <<"/", "/", "/">>)

authority(rest) == Before(From(rest, 3), "/")

\* validOptionalPort: after the last ":" of the host come digits only.
LastColon(host) ==
    IF ":" \in Range(host)
    THEN CHOOSE i \in 1..Len(host) : host[i] = ":" /\ \A j \in (i + 1)..Len(host) : host[j] # ":"
    ELSE 0

validOptionalPort(host) ==
    LastColon(host) # 0 => \A j \in (LastColon(host) + 1)..Len(host) : host[j] \in DigitAtoms

\* parseHost: its error for a bad port or a character not allowed in a host.
parseHost(host) ==
    IF ~ validOptionalPort(host) THEN "invalid port after host"
    ELSE IF \E i \in 1..Len(host) : host[i] \in {" ", "%ZZ"} THEN "invalid character in host name"
    ELSE ""

\* url.Parse: the scheme in lower case and the host, or an error.
Parse(rawURL) ==
    LET g    == getScheme(rawURL)
        auth == authority(g.rest) IN
    IF g.err # "" THEN [Scheme |-> << >>, Host |-> << >>, err |-> g.err]
    ELSE IF ~ HasPrefix(g.rest, <<"/">>) /\ g.scheme # << >>
    THEN [Scheme |-> ToLower(g.scheme), Host |-> << >>, err |-> ""]
    ELSE IF ~ HasPrefix(g.rest, <<"/">>) /\ Contains(Before(g.rest, "/"), <<":">>)
    THEN [Scheme |-> << >>, Host |-> << >>,
          err |-> "first path segment in URL cannot contain colon"]
    ELSE IF ~ hasAuthority(g.scheme, g.rest)
    THEN [Scheme |-> ToLower(g.scheme), Host |-> << >>, err |-> ""]
    ELSE [Scheme |-> IF parseHost(auth) = "" THEN ToLower(g.scheme) ELSE << >>,
          Host   |-> IF parseHost(auth) = "" THEN auth ELSE << >>,
          err    |-> parseHost(auth)]

\* URL.Hostname: the host without its port.
Hostname(u) == Before(u.Host, ":")

urlHasAnyScheme(u) == u.Scheme # << >>

urlHasAllowedScheme(u) == u.Scheme = <<"http">> \/ u.Scheme = <<"https">>

IsURL(str) ==
    LET u      == Parse(str)
        substr == From(str, Index(str, <<"larousse.fr">>) + 1) IN
    IF PathUnescapeFails(str) THEN [ok |-> FALSE, msg |-> "invalid URL escape"]
    ELSE IF u.err # "" THEN [ok |-> FALSE, msg |-> u.err]
    ELSE IF ~ urlHasAllowedScheme(u) THEN [ok |-> FALSE, msg |-> "Scheme must be http or https"]
    ELSE IF ~ Contains(Hostname(u), <<"larousse.fr">>)
    THEN [ok |-> FALSE, msg |-> "Hostname must contain larousse.fr"]
    ELSE IF Contains(substr, <<"/", "/">>) THEN [ok |-> FALSE, msg |-> "Found //"]
    ELSE IF ~ Contains(str, <<"larousse.fr", "/", "dictionnaires", "/">>)
    THEN [ok |-> FALSE, msg |-> "URL must contain larousse.fr/dictionnaires/"]
    ELSE [ok |-> TRUE, msg |-> ""]

-----------------------------------------------------------------------------
(* Calls of IsURL *)

SchemeSet ==
    {<< >>, <<":">>, <<"/", "/">>, <<"80", ":", "/", "/">>}
        \cup {<<s, ":", "/", "/">> : s \in {"http", "https", "ftp", "http2", "HTTP"}}
        \cup {<<"https", ":">>, <<"https", ":", "/">>, <<"www.", "https", ":", "/", "/">>}

HostSet ==
    {<< >>, <<"larousse.fr">>, <<"www.", "larousse.fr">>, <<"larousse.jp">>,
     <<"fr.wikipedia.org">>, <<"larousse.fr", ":", "80">>, <<"larousse.fr", ":", "asdf">>,
     <<"larousse.fr", " ">>}

PathSet ==
    {<< >>,
     <<"/", "dictionnaires", "/", "francais", "/", "vert">>,
     <<"/", "dictionnaires", "/", "/", "vert">>,
     <<"/", "francais", "/", "vert">>,
     <<"/", "vert", "/", "/", "larousse.fr", "/", "dictionnaires", "/">>,
     <<"/", "%ZZ", "/", "dictionnaires", "/">>}

\* The strings of TestIsURL that must be rejected.
TestRejected ==
    {<< >>, <<" ">>, <<"asdf">>,
     <<"https", ":", "/", "/", "fr.wikipedia.org">>,
     <<"ftp", ":", "/", "/", "larousse.fr", "/", "dictionnaires", "/", "francais", "/", "vert">>,
     <<"https", ":", "/", "/", "larousse.jp", "/", "dictionnaires", "/", "francais", "/", "vert">>,
     <<"http2", ":", "/", "/", "larousse.fr", "/", "dictionnaires", "/", "francais", "/", "vert">>}

URLStrings ==
    {s \o h \o p : s \in SchemeSet, h \in HostSet, p \in PathSet}
        \cup TestRejected
        \cup {<<"vert", "/", "asdf", ":", "larousse.fr">>, <<"/", "/", "/", "larousse.fr">>}

InitIsURL ==
    /\ pkg = "traduction"
    /\ \E s \in URLStrings : in = [function |-> "IsURL", str |-> s]
    /\ pc = "called" /\ doc = NoDoc
    /\ ErrWordNotFound = [p \in Packages |-> NilErr]
    /\ result = [ok |-> FALSE, msg |-> ""] /\ err = NilErr /\ ran = {}
    /\ Locals0
    /\ peer = << >>

CallIsURL ==
    /\ pc = "called" /\ in.function = "IsURL"
    /\ result' = IsURL(in.str) /\ pc' = "done"
    /\ UNCHANGED <<pkg, in, doc, ErrWordNotFound, err, ran>>
    /\ UnchangedLocals

NextIsURL == CallIsURL

SpecIsURL == InitIsURL /\ [][NextIsURL]_vars

-----------------------------------------------------------------------------
(* Calls of expressionCleanupTexte *)

MaxText == 4   \* characters of a text handed to the clean-up

TextAtoms == {"'", " ", ".", "a"}

Textes == SeqsUpTo(TextAtoms, MaxText)

InitCleanup ==
    /\ pkg = "definition"
    /\ \E t \in Textes : \E o \in {1, 2} :
           in = [function |-> "expressionCleanupTexte", texte |-> t, order |-> o]
    /\ pc = "called" /\ doc = NoDoc
    /\ ErrWordNotFound = [p \in Packages |-> NilErr]
    /\ result = << >> /\ err = NilErr /\ ran = {}
    /\ Locals0
    /\ peer = << >>

CallExpressionCleanupTexte ==
    /\ pc = "called" /\ in.function = "expressionCleanupTexte"
    /\ result' = expressionCleanupTexte(in.texte, in.order) /\ pc' = "done"
    /\ UNCHANGED <<pkg, in, doc, ErrWordNotFound, err, ran>>
    /\ UnchangedLocals

NextCleanup == CallExpressionCleanupTexte

SpecCleanup == InitCleanup /\ [][NextCleanup]_vars

-----------------------------------------------------------------------------
(* Properties *)

Succeeded(p) == pc = "done" /\ pkg = p /\ err = NilErr

\* The Word of the returned Result that small word i became.
ExportedSmallWord(i) == result.Words[Len(bigWords) + i]

\* A Word built by hand: one untitled Subheader holding the given Items.
HandBuilt(c, h, items) ==
    [Code |-> c, Header |-> h, Subheaders |-> <<[Title |-> << >>, Items |-> items]>>]

\* C1: every small word (an entry whose content block has no subheader
\* boundary marker) is exported as a Word with exactly one Subheader, of empty
\* Title, whose Items are the entry's Items in order, with Code and Header
\* unchanged; equals finds it equal to the hand-built Word with one untitled
\* Subheader holding the same Items.
SmallWordIsOneUntitledSubheader ==
    Succeeded("traduction") =>
        /\ Len(result.Words) = Len(bigWords) + Len(smallWords)
        /\ \A i \in 1..Len(smallWords) :
               LET w  == ExportedSmallWord(i)
                   sw == smallWords[i] IN
               /\ Len(w.Subheaders) = 1
               /\ w.Subheaders[1].Title = << >>
               /\ w.Subheaders[1].Items = sw.Items
               /\ w.Code = sw.Code /\ w.Header = sw.Header
               /\ WordEquals(w, HandBuilt(sw.Code, sw.Header, sw.Items)) = Equal

\* A page with a big word and a small word of two Items has been extracted.
SmallWordExported ==
    /\ Succeeded("traduction")
    /\ bigWords # << >>
    /\ \E i \in 1..Len(smallWords) :
           /\ Len(smallWords[i].Items) >= 2
           /\ ExportedSmallWord(i).Subheaders[1].Items = smallWords[i].Items

\* The Items of a Result of package traduction, of all Words and Subheaders.
ItemsOf(r) ==
    UNION {UNION {Range(r.Words[i].Subheaders[j].Items) :
                      j \in 1..Len(r.Words[i].Subheaders)} : i \in 1..Len(r.Words)}

\* The Phrases the phrase-building procedure returned for the zones of r.
PhrasesOf(r) == UNION {Range(it.Phrases) : it \in ItemsOf(r)}

RECURSIVE FlagPropagates(_)
FlagPropagates(p) ==
    \A i \in 1..Len(p.Subphrases) :
        p.Subphrases[i].IsBlue = p.IsBlue /\ FlagPropagates(p.Subphrases[i])

\* C2: in every extracted Item, every Phrase with Subphrases has passed its
\* expression flag IsBlue on to each of them: flag true, all Subphrases true;
\* flag false, all Subphrases false.  A Subphrase is a Phrase, so this is
\* asked of it too.
BlueFlagPropagated ==
    Succeeded("traduction") => \A p \in PhrasesOf(result) : FlagPropagates(p)

\* C3: every element of the Subphrases of a Phrase built from an expression
\* zone has itself no Subphrases, however the lists of the zone are nested.
SubphrasesNeverNest ==
    Succeeded("traduction") =>
        \A p \in PhrasesOf(result) :
            \A i \in 1..Len(p.Subphrases) : p.Subphrases[i].Subphrases = << >>

\* C4: a successfully extracted Result with at least one Word has the page ID
\* as the Code of its first Word, on pages of small words, of big words, or both.
FirstCodeIsPageID ==
    Succeeded("traduction") /\ result.Words # << >> => result.Words[1].Code = result.PageID

\* A page with big and small words, whose first entry has a code of its own in
\* the markup, has been extracted.
FirstCodeTakenFromPage ==
    /\ Succeeded("traduction")
    /\ bigWords # << >> /\ smallWords # << >>
    /\ getWordCodeFromZoneEntreeNode(doc, getBigWordZoneEntreeNodes(doc)[1]).ok
    /\ result.Words[1].Code = result.PageID

\* The words scraped so far from the list being scraped.
wordsSoFar == IF phase = "big" THEN bigWords ELSE smallWords

\* C5: when the direct extraction of the code of entry k >= 1 fails, entry k
\* is given the code that entry k-1 of the same list was given.
FallbackReusesPreviousCode ==
    /\ pc = "entry" /\ wi >= 1
    /\ ~ getWordCodeFromZoneEntreeNode(doc, zoneEntreeNodes[wi + 1]).ok
    => code = wordsSoFar[wi].Code

\* C6: every call getWordCode(i, doc, zoneEntreeNode) with i >= 0 terminates:
\* its activations have indices i, i-1, ..., never one below 0, so there are at
\* most i+1 of them and the stack is never exhausted.
ResolverStopsAtIndexZero ==
    /\ pc # "overflow"
    /\ pc = "code" => ri >= 0 /\ ri <= wi /\ calls = wi - ri + 1

\* The call for the third entry has fallen back to index 0 and has returned.
ResolverFellBackToZero == pc = "entry" /\ wi = 2 /\ ri = 0

\* The invocation has ended, by returning or by a run-time failure.
Ended == pc \in {"done", "panic", "overflow"}

\* C7: on a page with the word-not-found marker NewFromFileOrURL, of either
\* package, returns the package's ErrWordNotFound, which is not nil, and no
\* locator or extractor runs but the one of the suggestions.
NotFoundReturnsErrWordNotFound ==
    doc # NoDoc /\ IsWordNotFoundPage(doc) =>
        /\ ran \subseteq {"GetSearchSuggestions"}
        /\ Ended => /\ pc = "done"
                    /\ err = ErrWordNotFound[pkg] /\ err # NilErr
                    /\ ran = {"GetSearchSuggestions"}

\* The list items of the corrector block of a page, in document order.
CorrectorItems(d) ==
    SelectSeq(Preorder(d, FindByClass(d, << >>, "corrector")), LAMBDA q : NodeAt(d, q).tag = "li")

ContentIsEmpty(r) ==
    IF pkg = "traduction" THEN r.Words = << >>
    ELSE [r EXCEPT !.SeeAlso = << >>, !.PageID = 0] = ZeroDefinitionResult

\* C8: on a word-not-found page without the no-suggestions banner and with n
\* list items in its corrector block, the Result returned has n links in
\* SeeAlso, one per list item in document order, and no content.
SeeAlsoHasOneLinkPerItem ==
    doc # NoDoc /\ IsWordNotFoundPage(doc) /\ hasSuggestions(doc) /\ Ended =>
        /\ pc = "done"
        /\ Len(result.SeeAlso) = Len(CorrectorItems(doc))
        /\ \A i \in 1..Len(result.SeeAlso) :
               /\ FindByTag(doc, CorrectorItems(doc)[i], "a") # Nil
               /\ result.SeeAlso[i] =
                      SiteRoot \o AttrHref(doc, FindByTag(doc, CorrectorItems(doc)[i], "a"))
        /\ ContentIsEmpty(result)

\* What NewFromFileOrURL(in) returns as its error on a word-not-found page
\* when no other invocation runs.
OwnErrWordNotFound == NewError("NewFromFileOrURL", in.name, <<"ErrWordNotFound">>)

\* C9: two invocations running concurrently share no mutable state, so what
\* each returns depends on its own input only: on a word-not-found page, the
\* error made from its own input.
ReturnsDependOnOwnInputOnly ==
    pc = "done" /\ IsWordNotFoundPage(doc) => err = OwnErrWordNotFound

\* C10: equals is reflexive on every Result extraction can produce, whatever
\* the URLs of its SeeAlso: r.equals(r) is the empty message and true.
EqualsIsReflexive ==
    pc = "done" /\ pkg = "traduction" => ResultEquals(result, result) = Equal


\* The digits a string ends in.
RECURSIVE TrailingDigits(_)
TrailingDigits(s) ==
    IF s = << >> \/ s[Len(s)] \notin Digits THEN << >>
    ELSE TrailingDigits(SubSeq(s, 1, Len(s) - 1)) \o <<s[Len(s)]>>

\* The two lists of URLs have the same length and, place by place, the same
\* trailing numeric identifier.
SameTrailingIDs(a, b) ==
    /\ Len(a) = Len(b)
    /\ \A i \in 1..Len(a) :
           TrailingDigits(a[i]) # << >> /\ TrailingDigits(a[i]) = TrailingDigits(b[i])

\* At some place both lists have a URL, and the two trailing identifiers differ.
TrailingIDsDiffer(a, b) ==
    \E i \in 1..Len(a) :
        /\ i <= Len(b)
        /\ TrailingDigits(a[i]) # << >> /\ TrailingDigits(b[i]) # << >>
        /\ TrailingDigits(a[i]) # TrailingDigits(b[i])

ResultsCompared == pc = "done" /\ in.function = "Result.equals"

\* C11: Result.equals, of either package, compares the SeeAlso lists by the
\* trailing numeric identifier of each URL only.  Two Results that are
\* identical but for SeeAlso, whose SeeAlso lists have the same length and
\* pairwise equal trailing identifiers, compare equal whatever the rest of
\* the URLs; two Results whose trailing identifiers differ at some index
\* compare unequal.
SeeAlsoComparedByTrailingID ==
    ResultsCompared =>
        /\ ([in.r EXCEPT !.SeeAlso = << >>] = [in.q EXCEPT !.SeeAlso = << >>]
               /\ SameTrailingIDs(in.r.SeeAlso, in.q.SeeAlso)
            => result = Equal)
        /\ (TrailingIDsDiffer(in.r.SeeAlso, in.q.SeeAlso) => ~ result.ok)

\* Two Results that differ in the spelling of a SeeAlso URL only have been
\* compared and found equal.
RespelledSeeAlsoComparedEqual ==
    /\ ResultsCompared
    /\ [in.r EXCEPT !.SeeAlso = << >>] = [in.q EXCEPT !.SeeAlso = << >>]
    /\ in.r.SeeAlso # in.q.SeeAlso
    /\ Len(in.r.SeeAlso) = MaxSeeAlso
    /\ SameTrailingIDs(in.r.SeeAlso, in.q.SeeAlso)
    /\ result = Equal


\* The list-valued fields of the type whose equals is called.
ListFieldsOf(pk, function) ==
    CASE function = "Result.equals" ->
             IF pk = "traduction" THEN {"Words", "SeeAlso"}
             ELSE Range(ListFields) \cup {"SeeAlso"}
      [] function = "Word.equals"      -> {"Subheaders"}
      [] function = "Subheader.equals" -> {"Items"}
      [] function = "Item.equals"      -> {"Meanings", "Phrases"}
      [] function = "Phrase.equals"    -> {"Subphrases"}
      [] function = "Relation.equals"  -> {"Synonymes", "Contraires"}

\* C12: in every comparator (Result, Word, Subheader, Item, Phrase, Relation)
\* the element-wise comparison of two lists is reached only after their
\* lengths were compared and found equal.  No comparison indexes past the end
\* of the shorter list (no call fails at run time), and when two lists of the
\* records differ in length the message is not the path of an element.
LengthsComparedFirst ==
    /\ pc # "panic"
    /\ pc = "done" /\ (\E f \in ListFieldsOf(pkg, in.function) : Len(in.r[f]) # Len(in.q[f]))
       => ~ result.ok /\ Head(result.msg) \notin ListFieldsOf(pkg, in.function)

\* Two Results, the first with more Words than the second and the same Words
\* as far as the second goes, were compared: the lengths were reported.
LongerWordsCompared ==
    /\ ResultsCompared /\ pkg = "traduction"
    /\ Len(in.r.Words) > Len(in.q.Words) /\ in.q.Words # << >>
    /\ SubSeq(in.r.Words, 1, Len(in.q.Words)) = in.q.Words
    /\ result = Differ("len(Words)")


\* The fields of Phrase in the order of their declaration.
PhraseFields == PhraseScalars \o <<"IsBlue", "Subphrases">>

\* The first field, in the declared order, at which two Phrases differ.
FirstDifference(p, q) == PhraseFields[FirstBad(Len(PhraseFields), LAMBDA k : p[PhraseFields[k]] # q[PhraseFields[k]])]

\* C13: when two Phrases differ, the message of Phrase.equals names the first
\* field at which they differ, in the declared order Text1, Text2, Audio1,
\* Audio2, RedBrac, RedCaps, RedMeta, IsBlue, Subphrases.
PhraseMessageNamesFirstDifference ==
    pc = "done" /\ in.function = "Phrase.equals" /\ in.r # in.q =>
        /\ ~ result.ok
        /\ IF FirstDifference(in.r, in.q) = "Subphrases"
           THEN Head(result.msg) \in {"len(Subphrases)", "Subphrases"}
           ELSE result.msg = <<FirstDifference(in.r, in.q)>>


\* The orders in which the range loop of expressionCleanupTexte can visit its
\* two rules.
Orders == {1, 2}

\* The record a second extraction of the same tree returns when its internal
\* choice of order is the given one.  Nothing else in an extraction is chosen.
ExtractedAgain(order) ==
    IF pkg = "definition" /\ err = NilErr THEN definitionResult(doc, order) ELSE result

\* r.equals(q) of the package whose NewFromFileOrURL ran.
PackageEquals(r, q) ==
    IF pkg = "traduction" THEN ResultEquals(r, q) ELSE definitionResultEquals(r, q)

\* C14: extraction is deterministic and idempotent: the records of two
\* extractions of the same tree are found equal by equals, whatever the order
\* in which the clean-up rules of an expression were applied in each.
ExtractionIsIdempotent ==
    pc = "done" /\ doc # NoDoc =>
        \A order \in Orders : PackageEquals(result, ExtractedAgain(order)).ok


\* The ZoneEntree nodes of the Words of a Result, in the order of the Words.
EntryNodes(d) == getBigWordZoneEntreeNodes(d) \o getSmallWordZoneEntreeNodes(d)

\* The entry has its header-text anchor.
AnchorFound(d, n) == FindByClass(d, n, "Adresse") # Nil

\* The entry has no grammatical-type node.
TypeMissing(d, n) ==
    FindByClass(d, n, "ZoneGram") = Nil /\ FindByClass(d, n, "CategorieGrammaticale") = Nil

\* The entry has no audio marker, or no audio element after its marker (next
\* to it, or behind the text that follows it).
AudioMissing(d, n) ==
    LET l  == FindByClass(d, n, "lienson")
        m  == NextSibling(d, l)
        m2 == IF m # Nil /\ isTextNode(d, m) THEN NextSibling(d, m) ELSE m IN
    l = Nil \/ m2 = Nil \/ NodeAt(d, m2).tag # "audio"

\* The content block of the entry is the plain one, which extracts.
PlainContent(d, n) ==
    NextSibling(d, n) # Nil /\ NodeAt(d, NextSibling(d, n)) = PlainTexte("small")

\* C15: when the header-text anchor of an entry is found, an absent
\* grammatical-type node, an absent audio node or audio element after the
\* audio marker, or an absent subheader title never makes the extraction fail
\* or return an error: the field is the empty string and extraction goes on.
OptionalFieldsDefault ==
    /\ pkg = "traduction" /\ (pc = "panic" \/ (pc = "done" /\ err # NilErr))
           /\ phase # "none" /\ "GetSimilarWords" \notin ran =>
           LET n == zoneEntreeNodes[wi + 1] IN
           ~ (AnchorFound(doc, n) /\ PlainContent(doc, n)
                  /\ (AudioMissing(doc, n) \/ TypeMissing(doc, n)))
    /\ Succeeded("traduction") =>
           \A i \in 1..Len(result.Words) :
               LET n == EntryNodes(doc)[i]
                   b == getBlackNodes(doc, NextSibling(doc, n)) IN
               /\ AudioMissing(doc, n) => result.Words[i].Header.Audio = << >>
               /\ TypeMissing(doc, n) => result.Words[i].Header.Type = << >>
               /\ i <= Len(bigWords) =>
                      \A j \in 1..Len(b) :
                          FindByClass(doc, b[j], "Indicateur2") = Nil
                              => result.Words[i].Subheaders[j].Title = << >>
    /\ Succeeded("definition") /\ Find(doc, << >>, HeaderTypeNode) = Nil =>
           result.Header.Type = << >>


\* A relation node that lacks a child or sibling its parsing requires: the
\* first child (the text), the label after it, the list after the label, or
\* the list of antonyms after a second label.
LacksRequiredNode(d, n) ==
    LET texte  == FirstChild(d, n)
        label  == NextSibling(d, texte)
        list   == NextSibling(d, label)
        label2 == NextSibling(d, list) IN
    \/ texte = Nil \/ label = Nil \/ list = Nil
    \/ /\ HasPrefixAtom(Text(d, label), "Synonyme")
       /\ label2 # Nil /\ NextSibling(d, label2) = Nil

\* C16: a structural failure is surfaced to the caller as an error value: when
\* a relation node lacks a child or sibling that its parsing requires,
\* RelationNode returns a non-nil error, which findRelations and
\* NewFromFileOrURL hand on, rather than failing uncontrolled or returning
\* lists.
RelationFailureIsSurfaced ==
    /\ pkg = "definition" /\ Ended /\ "findRelations" \in ran
    /\ \E i \in 1..Len(RelationNodes(doc)) : LacksRequiredNode(doc, RelationNodes(doc)[i])
    => pc = "done" /\ err # NilErr


\* The item markers of a content block, in document order.
ItemMarkers(d, n) == SelectSeq(Preorder(d, n), LAMBDA p : class(d, p) = "itemZONESEM")

PhraseZoneClasses == {"ZoneExpression1", "ZoneExpression", "ZoneExpression2", "BlocExpression"}

NoPhraseZones(d, n) == \A p \in Range(Preorder(d, n)) : class(d, p) \notin PhraseZoneClasses

\* The content block of the i-th entry without boundary markers.
SmallContent(d, i) == NextSibling(d, getSmallWordZoneEntreeNodes(d)[i])

\* The Word has one untitled Subheader with one Item per marker of the block
\* c, in document order, or one Item for the whole block when it has no
\* marker; no Item has Phrases.
IsScenarioAWord(w, d, c) ==
    LET markers == ItemMarkers(d, c)
        sources == IF markers = << >> THEN <<c>> ELSE markers IN
    /\ Len(w.Subheaders) = 1
    /\ w.Subheaders[1].Title = << >>
    /\ Len(w.Subheaders[1].Items) = Len(sources)
    /\ \A k \in 1..Len(sources) :
           /\ k <= Len(w.Subheaders[1].Items)
           /\ w.Subheaders[1].Items[k].Phrases = << >>
           /\ ~ scrapeMeaningsPanics(d, sources[k])
           /\ w.Subheaders[1].Items[k].Meanings = scrapeMeanings(d, sources[k])

\* C17: an entry with no boundary markers whose content block contains n item
\* markers and no phrase zones yields exactly one Word with exactly one
\* Subheader of empty title; that Subheader has exactly n Items in document
\* order when n >= 1 and exactly one Item (the whole content block) when
\* n = 0, and every Item's Phrases list is empty.
ScenarioAYieldsOneUntitledSubheader ==
    /\ Succeeded("traduction") =>
           /\ Len(result.Words) = Len(bigWords) + Len(getSmallWordZoneEntreeNodes(doc))
           /\ \A i \in 1..Len(smallWords) :
                  NoPhraseZones(doc, SmallContent(doc, i))
                      => IsScenarioAWord(ExportedSmallWord(i), doc, SmallContent(doc, i))
    /\ /\ pkg = "traduction" /\ phase = "small" /\ "GetSimilarWords" \notin ran
       /\ ~ ZoneEntreePanics(doc, zoneEntreeNodes[wi + 1])
       /\ NoPhraseZones(doc, SmallContent(doc, wi + 1))
       => pc # "panic"


\* The nodes of the page that are a div of class "SensSynonymes".
SensSynonymesNodes(d) ==
    SelectSeq(Preorder(d, << >>), LAMBDA n : TagClass("div", "SensSynonymes", d, n))

\* Relation nodes whose first child is an element of the given tag with class
\* "DivisionDefinition", or a <b> element.
WithFirstChild(d, tag) ==
    SelectSeq(SensSynonymesNodes(d),
              LAMBDA n : /\ FirstChild(d, n) # Nil
                         /\ \/ TagClass(tag, "DivisionDefinition", d, FirstChild(d, n))
                            \/ NodeAt(d, FirstChild(d, n)).tag = "b")

\* C18 as stated: the RelationNode classifier returns true for a relation node
\* (a div of class "SensSynonymes") whose first child is a div of class
\* "DivisionDefinition", as well as for one whose first child is a <b>
\* element, and false when the node has no first child: every such node of a
\* page gives a Relation, and a node without children gives none.
DivFirstChildIsRelation ==
    Succeeded("definition") =>
        /\ Len(result.Relations) >= Len(WithFirstChild(doc, "div"))
        /\ Len(result.Relations) <=
               Len(SelectSeq(SensSynonymesNodes(doc), LAMBDA n : FirstChild(doc, n) # Nil))

\* C18: the RelationNode classifier returns true exactly for a relation node
\* (a div of class "SensSynonymes") whose first child is a <p> of class
\* "DivisionDefinition" or a <b> element; it returns false when the node has
\* no first child, and for any other first child, a div of class
\* "DivisionDefinition" included: the Relations of a page are its relation
\* nodes of that form, in document order.
ParagraphFirstChildIsRelation ==
    Succeeded("definition") =>
        /\ Len(result.Relations) = Len(WithFirstChild(doc, "p"))
        /\ RelationNodes(doc) = WithFirstChild(doc, "p")

\* A page with a relation node that starts with a <b> and one that starts
\* with a div of class "DivisionDefinition" gave one Relation.
DivFirstChildSkipped ==
    /\ Succeeded("definition")
    /\ Len(WithFirstChild(doc, "div")) = 2
    /\ Len(WithFirstChild(doc, "p")) = 1
    /\ Len(result.Relations) = 1


\* The nodes of S below root, in the order of a pre-order walk of the tree.
InDocumentOrder(d, root, S) == SelectSeq(Preorder(d, root), LAMBDA p : p \in S)

\* The nodes of an item that become its Phrases.
PhraseSources(d, item) ==
    Range(FindAllByClass(d, item, "ZoneExpression1"))
        \cup Range(FindAllByClass(d, item, "ZoneExpression"))
        \cup (IF FindByClass(d, item, "BlocExpression") = Nil THEN {}
              ELSE {FindByClass(d, item, "BlocExpression")}
                       \cup Range(FindAllByClass(d, item, "ZoneExpression2")))

\* The Phrase of one source node.
PhraseOf(d, z) ==
    setBlue(getPhraseFromZoneExpression(d, z),
            class(d, z) \in {"BlocExpression", "ZoneExpression2"})

\* The Items of a content block list its item nodes in document order, and
\* the Phrases of each Item list its source nodes in document order.
ItemsInDocumentOrder(items, d, c) ==
    LET sources == InDocumentOrder(d, c, Range(ItemNodesOf(d, c))) IN
    /\ Len(items) = Len(sources)
    /\ \A k \in 1..Len(sources) :
           /\ k <= Len(items)
           /\ items[k].Meanings = scrapeMeanings(d, sources[k])
           /\ items[k].Phrases =
                  Map(InDocumentOrder(d, sources[k], PhraseSources(d, sources[k])),
                      LAMBDA z : PhraseOf(d, z))

\* C19: every list-valued field among Definitions, Expressions, Items, Phrases
\* and Subphrases lists its elements in document order of their source nodes:
\* of any two elements, the one whose source node comes first in a pre-order
\* walk of the page tree comes first in the list, in particular for an Item
\* holding phrases of several expression-zone variants and blue expression
\* blocks.
ListsInDocumentOrder ==
    /\ Succeeded("traduction") =>
           \A i \in 1..Len(smallWords) :
               ItemsInDocumentOrder(ExportedSmallWord(i).Subheaders[1].Items,
                                    doc, SmallContent(doc, i))
    /\ Succeeded("definition") /\ ~ IsWordNotFoundPage(doc) =>
           /\ result.Definitions =
                  Map(SelectSeq(Preorder(doc, << >>), LAMBDA n : matchDefinitionNode(doc, n)),
                      LAMBDA n : parseDefinitionNode(doc, n))
           /\ \E order \in Orders :
                  result.Expressions =
                      Map(SelectSeq(Preorder(doc, << >>), LAMBDA n : matchExpressionNode(doc, n)),
                          LAMBDA n : parseExpressionNode(doc, n, order))


\* A string made of a scheme that is http or https in any case, "://", a host
\* that holds "larousse.fr" before any port, and a path without "//"; and
\* that contains "larousse.fr/dictionnaires/".
IsDictionaryURL(s) ==
    /\ Len(s) >= 5
    /\ s[1] \in {"http", "https", "HTTP"}
    /\ s[2] = ":" /\ s[3] = "/" /\ s[4] = "/"
    /\ \E e \in 5..Len(s) :
           /\ \A j \in 5..e : s[j] # "/"
           /\ e < Len(s) => s[e + 1] = "/"
           /\ \E j \in 5..e : s[j] = "larousse.fr" /\ \A k \in 5..j : s[k] # ":"
           /\ \A j \in (e + 1)..(Len(s) - 1) : ~ (s[j] = "/" /\ s[j + 1] = "/")
    /\ \E j \in 1..(Len(s) - 3) :
           s[j] = "larousse.fr" /\ s[j + 1] = "/" /\ s[j + 2] = "dictionnaires" /\ s[j + 3] = "/"

IsURLReturned == pc = "done" /\ in.function = "IsURL"

\* C20: IsURL returns true only for strings that parse as a URL with scheme
\* exactly http or https, whose hostname contains "larousse.fr", that contain
\* "larousse.fr/dictionnaires/" and that have no "//" after the host; it
\* returns false, with a non-empty message, for the empty string, a blank
\* string, free text, other hosts and other schemes such as ftp or http2.
IsURLAcceptsOnlyDictionaryURLs ==
    IsURLReturned =>
        /\ result.ok => IsDictionaryURL(in.str) /\ result.msg = ""
        /\ ~ result.ok => result.msg # ""
        /\ in.str \in TestRejected => ~ result.ok

\* IsURL has accepted a URL of the dictionary with a host before
\* "larousse.fr".
IsURLAccepted ==
    /\ IsURLReturned /\ result.ok
    /\ in.str = <<"http", ":", "/", "/", "www.", "larousse.fr",
                  "/", "dictionnaires", "/", "francais", "/", "vert">>


\* The boundary-marker nodes of a content block, in document order.
BoundaryClasses == {"itemBLSEM1", "itemBLSEM"}

BoundaryMarkers(d, c) == SelectSeq(Preorder(d, c), LAMBDA p : class(d, p) \in BoundaryClasses)

\* The title of a partition: the text of its first title marker, or empty.
TitleOf(d, b) ==
    LET ts == SelectSeq(Preorder(d, b), LAMBDA p : class(d, p) = "Indicateur2") IN
    IF ts = << >> THEN << >> ELSE Text(d, ts[1])

PositionIn(seq, x) == CHOOSE i \in 1..Len(seq) : seq[i] = x

\* The Word of the Result that the entry anchor z became: the words with
\* subheaders come first, then the others.
WordOfEntry(d, words, z) ==
    IF z \in Range(getBigWordZoneEntreeNodes(d))
    THEN words[PositionIn(getBigWordZoneEntreeNodes(d), z)]
    ELSE words[Len(getBigWordZoneEntreeNodes(d)) + PositionIn(getSmallWordZoneEntreeNodes(d), z)]

\* As many Subheaders as markers, and every title as often as among the markers.
OneSubheaderPerMarker(w, d, markers) ==
    /\ Len(w.Subheaders) = Len(markers)
    /\ \A i \in 1..Len(markers) :
           Cardinality({j \in 1..Len(w.Subheaders) : w.Subheaders[j].Title = TitleOf(d, markers[i])})
               = Cardinality({j \in 1..Len(markers) : TitleOf(d, markers[j]) = TitleOf(d, markers[i])})

\* C21: a word whose content block contains at least one boundary marker (a
\* big word) yields exactly one Subheader per boundary-marker node of that
\* block, hence at least one; each Subheader's Title is the text of the first
\* title-marker (class "Indicateur2") node found within its partition, or the
\* empty string if none, and a missing title never produces an error.
BigWordHasOneSubheaderPerMarker ==
    /\ Succeeded("traduction") =>
           \A z \in Range(ZoneEntreeNodes(doc)) :
               BoundaryMarkers(doc, NextSibling(doc, z)) # << >> =>
                   OneSubheaderPerMarker(WordOfEntry(doc, result.Words, z), doc,
                                         BoundaryMarkers(doc, NextSibling(doc, z)))
    /\ /\ pkg = "traduction" /\ phase \in {"big", "small"} /\ "GetSimilarWords" \notin ran
       /\ ~ ZoneEntreePanics(doc, zoneEntreeNodes[wi + 1])
       /\ BoundaryMarkers(doc, NextSibling(doc, zoneEntreeNodes[wi + 1])) # << >>
       => pc # "panic"


\* The Items of the returned Result, each with the node it was built from.
SourcedItemsOf(items, d, nodes) ==
    {[item |-> items[k], node |-> nodes[k]] : k \in 1..Len(items) \cap 1..Len(nodes)}

SourcedItems ==
    UNION {SourcedItemsOf(ExportedSmallWord(i).Subheaders[1].Items, doc,
                          ItemNodesOf(doc, SmallContent(doc, i))) : i \in 1..Len(smallWords)}
        \cup UNION {UNION {SourcedItemsOf(
                               result.Words[i].Subheaders[j].Items, doc,
                               ItemNodesOf(doc, getBlackNodes(doc, NextSibling(doc,
                                   getBigWordZoneEntreeNodes(doc)[i]))[j])) :
                           j \in 1..Len(result.Words[i].Subheaders)} :
                    i \in 1..Len(bigWords)}

\* The semantic-division nodes below an item node, in document order, and
\* those of them that lie in no other one.
Divisions(d, item) ==
    SelectSeq(Preorder(d, item), LAMBDA p : p # item /\ class(d, p) = "division-semantique")

OutermostDivisions(d, item) ==
    SelectSeq(Divisions(d, item),
              LAMBDA p : \A q \in Range(Divisions(d, item)) : q = p \/ ~ IsPrefix(q, p))

\* The Meaning read from the leading children of a node.
LeadingMeaning(d, n) ==
    LET first == FirstChild(d, n) IN
    FirstMeaningFrom(d, IF isTextNode(d, first) /\ isWhitespace(NodeAt(d, first).data)
                        THEN NextSibling(d, first) ELSE first,
                     ZeroMeaning)

\* The Meanings after the first are leading Meanings of distinct divisions,
\* in document order.
RECURSIVE OnePerDivision(_, _, _)
OnePerDivision(ms, d, divs) ==
    \/ ms = << >>
    \/ /\ divs # << >>
       /\ \/ OnePerDivision(ms, d, Tail(divs))
          \/ Head(ms) = LeadingMeaning(d, Head(divs)) /\ OnePerDivision(Tail(ms), d, Tail(divs))

\* C22: in an Item's Meanings, each semantic-division node of the Item's
\* subtree contributes at most one Meaning (the first Meaning of that
\* division), so the number of Meanings is at most 1 plus the number of
\* semantic-division nodes in the Item, and the recursive extraction
\* terminates for every finite item subtree: it calls itself on proper
\* descendants of its node only.
OneMeaningPerDivision ==
    Succeeded("traduction") =>
        \A s \in SourcedItems :
            /\ Len(s.item.Meanings) <= 1 + Len(Divisions(doc, s.node))
            /\ Len(s.item.Meanings) <= 1 + Len(OutermostDivisions(doc, s.node))
            /\ s.item.Meanings # << >> =>
                   /\ Head(s.item.Meanings) = LeadingMeaning(doc, s.node)
                   /\ OnePerDivision(Tail(s.item.Meanings), doc, OutermostDivisions(doc, s.node))
            /\ \A p \in Range(FindAllByClass(doc, s.node, "division-semantique")) :
                   p # s.node => IsPrefix(s.node, p) /\ Len(p) > Len(s.node)

\* An Item was built from a node whose division holds a Meaning of its own
\* and a division with another Meaning: the Item has the Meaning of the
\* outer division only.
NestedDivisionExtracted ==
    /\ Succeeded("traduction")
    /\ \E s \in SourcedItems :
           /\ Len(Divisions(doc, s.node)) = 2
           /\ Len(OutermostDivisions(doc, s.node)) = 1
           /\ Len(s.item.Meanings) = 2
           /\ s.item.Meanings[2] = LeadingMeaning(doc, Divisions(doc, s.node)[1])
           /\ ~ MeaningIsEmpty(LeadingMeaning(doc, Divisions(doc, s.node)[2]))


\* The secondary expression zones of an item, in document order, and its
\* first blue expression block.
SecondaryZones(d, item) ==
    SelectSeq(Preorder(d, item), LAMBDA p : class(d, p) = "ZoneExpression2")

BlueBlocks(d, item) ==
    SelectSeq(Preorder(d, item), LAMBDA p : class(d, p) = "BlocExpression")

BluePhrase(d, z) == setBlue(getPhraseFromZoneExpression(d, z), TRUE)

\* C23: every secondary-expression-zone node (class "ZoneExpression2") found
\* anywhere in an Item becomes a Phrase of that Item with its expression flag
\* true, and the first blue expression block (class "BlocExpression") of the
\* Item becomes a Phrase with its expression flag true placed before them.
SecondaryZonesBecomeBluePhrases ==
    Succeeded("traduction") =>
        \A s \in SourcedItems :
            LET blues == SelectSeq(s.item.Phrases, LAMBDA p : p.IsBlue)
                first == IF BlueBlocks(doc, s.node) = << >> THEN << >>
                         ELSE <<BluePhrase(doc, BlueBlocks(doc, s.node)[1])>> IN
            blues = first \o Map(SecondaryZones(doc, s.node), LAMBDA z : BluePhrase(doc, z))


\* The children of a node that have a given class.
KidsOfClass(d, z, c) == SelectSeq(Kids(d, z), LAMBDA k : class(d, k) = c)

\* The source-audio markers inside the main text node l of a zone.
NestedMarkers(d, l) ==
    SelectSeq(Preorder(d, l), LAMBDA p : p # l /\ class(d, p) = "lienson3")

\* The Phrases of an item that were built from a zone with main text node l.
PhrasesOfText(item, d, l) == {p \in Range(item.Phrases) : p.Text1 = Text(d, l)}

\* C24: when a Phrase's main text node (class "Locution2") contains a nested
\* source-audio marker (class "lienson3"), the Phrase's Audio1 after the walk
\* over all children is the URL resolved from that nested marker; the
\* sibling-level source-audio marker determines Audio1 only when no nested
\* marker exists.
NestedAudioMarkerWins ==
    Succeeded("traduction") =>
        \A s \in SourcedItems : \A z \in PhraseSources(doc, s.node) :
            Len(KidsOfClass(doc, z, "Locution2")) = 1 =>
                LET l       == KidsOfClass(doc, z, "Locution2")[1]
                    nested  == NestedMarkers(doc, l)
                    beside  == KidsOfClass(doc, z, "lienson3") IN
                /\ PhrasesOfText(s.item, doc, l) # {}
                /\ \A p \in PhrasesOfText(s.item, doc, l) :
                       /\ nested # << >> => p.Audio1 = Lienson(doc, nested[1])
                       /\ nested = << >> /\ Len(beside) = 1 => p.Audio1 = Lienson(doc, beside[1])


CleanedUp == pc = "done" /\ in.function = "expressionCleanupTexte"

\* C25: for every input text, the cleaned expression text returned by the
\* expression clean-up contains no apostrophe immediately followed by a
\* space, no space immediately followed by a period, and no leading or
\* trailing space.
CleanedTextHasNoArtifacts ==
    CleanedUp =>
        /\ ~ Contains(result, <<"'", " ">>)
        /\ ~ Contains(result, <<" ", ".">>)
        /\ result # << >> => result[1] # " " /\ result[Len(result)] # " "


\* C26: whenever NewFromFileOrURL has returned a non-nil error on an input
\* that is not a word-not-found page (a bad URL, a failed fetch, a structural
\* failure in a section or in a word), the Result returned with it is the
\* zero Result, whatever had been extracted before the failure.
ErrorComesWithZeroResult ==
    (pc = "done" /\ err # NilErr /\ ~(doc # NoDoc /\ IsWordNotFoundPage(doc)))
        => result = Zero(pkg)

\* A later word fails after earlier words of the page had been extracted.
FailureAfterPartialExtraction ==
    /\ pc = "done"
    /\ err # NilErr
    /\ pkg = "traduction"
    /\ bigWords # << >>
    /\ result = Zero(pkg)

\* C27: on a successfully extracted translation page every node of class
\* ZoneEntree yields exactly one Word: it is among the big-word anchors or
\* among the small-word anchors, never both and never neither, each list
\* yields one word per anchor, and Words holds as many Words as the page
\* has anchors.
AnchorsOf(d) == SelectSeq(Preorder(d, << >>), LAMBDA q : ByClass("ZoneEntree", d, q))

TimesIn(seq, x) == Cardinality({i \in 1..Len(seq) : seq[i] = x})

WordsFollowAnchors(d, words) ==
    /\ Len(words) = Len(AnchorsOf(d))
    /\ \A i \in 1..Len(words) : words[i].Header = ZoneEntree(d, AnchorsOf(d)[i])

WordsInDocumentOrder ==
    (pc = "done" /\ pkg = "traduction" /\ err = NilErr) => WordsFollowAnchors(doc, result.Words)

\* C29: building the Items of a word does not fail on an item node without
\* children (an itemZONESEM node, or a content block or black node used as
\* the single item): the loop over the entries does not panic because of it,
\* and the Item built from such a node has no Meanings and no Phrases.
ItemNodesUnder(d, z) ==
    IF hasBigWords(d, NextSibling(d, z))
    THEN UNION {Range(ItemNodesOf(d, b)) : b \in Range(getBlackNodes(d, NextSibling(d, z)))}
    ELSE Range(ItemNodesOf(d, NextSibling(d, z)))

Childless(d, n) == FirstChild(d, n) = Nil

ChildlessItemNodeIsBuilt ==
    /\ Succeeded("traduction") =>
           \A si \in SourcedItems :
               Childless(doc, si.node) =>
                   si.item.Meanings = << >> /\ si.item.Phrases = << >>
    /\ /\ pkg = "traduction" /\ phase \in {"big", "small"} /\ "GetSimilarWords" \notin ran
       /\ ~ ZoneEntreePanics(doc, zoneEntreeNodes[wi + 1])
       /\ \E n \in ItemNodesUnder(doc, zoneEntreeNodes[wi + 1]) : Childless(doc, n)
       /\ \A n \in ItemNodesUnder(doc, zoneEntreeNodes[wi + 1]) :
              Childless(doc, n) \/ ~ scrapeItemPanics(doc, n)
       => pc # "panic"

\* C30: the error NewFromFileOrURL has returned compares equal to the
\* package variable ErrWordNotFound only if the page of the call was a
\* word-not-found page; the nil error of a successful extraction never
\* does, also before any word-not-found page has been seen.
SentinelOnlyForNotFoundPages ==
    (pc = "done" /\ err = ErrWordNotFound[pkg]) => (doc # NoDoc /\ IsWordNotFoundPage(doc))
=============================================================================
